---- MODULE Spec2Model ----
(***************************************************************************)
(* Verification model of the document-verification decision core of        *)
(* AIDocuVerification (backend/app/services), of its MCP tool and of the   *)
(* endpoints of backend/app/api/v1/endpoints/verify.py.                    *)
(*                                                                         *)
(* Conventions                                                             *)
(*   - A text is a sequence of string tokens.  Text that the code inspects *)
(*     character by character (names, hints, type strings, issues) is      *)
(*     written one character per token; a literal of the source that is    *)
(*     only ever copied is a single token (cut in two where a property     *)
(*     looks for a part of it).  Python's + and f-strings are \o on these  *)
(*     sequences.                                                          *)
(*   - A float confidence is an integer number of thousandths (600 is 0.6).*)
(*   - A JSON value of the extraction result is a record tagged by t:      *)
(*     null, bool, int, float, str, list, dict.  A dict is the sequence of *)
(*     its [k, v] items in insertion order, the order .items() iterates.   *)
(*   - A Python call that may raise yields [ok |-> TRUE, val |-> v] or      *)
(*     [ok |-> FALSE, exc |-> "ValueError" ...].                           *)
(***************************************************************************)
EXTENDS Integers, Sequences, FiniteSets, TLC

VARIABLES
    pc,                  \* position of the invocation being modelled
    document_type_hint,  \* run_verification_pipeline argument
    extraction_result,   \* what extract_fields returned
    doc_type,            \* locals of run_verification_pipeline / arguments
    overall_confidence,
    is_readable,
    fields,
    validation_errors,
    fraud_signals,
    recommendation,
    explanation,
    exception,           \* the exception that left the invocation, if any
    extract_calls,       \* how often the invocation has called extract_fields
    now,                 \* the date datetime.now() reports
    history,             \* the calls of functions and handlers made so far
    invocations,         \* the pipeline invocations in flight together
    arguments,           \* arguments of an MCP tool call or of an HTTP request
    response,            \* what the tool or endpoint handler answered
    verification_requests, \* rows of the table verification_requests
    audit_logs           \* rows of the table audit_logs, in insertion order

vars == <<pc, document_type_hint, extraction_result, doc_type, overall_confidence,
          is_readable, fields, validation_errors, fraud_signals, recommendation,
          explanation, exception, extract_calls, now, history, invocations,
          arguments, response, verification_requests, audit_logs>>

\* the single invocation that pc follows
invocation == <<pc, document_type_hint, extraction_result, doc_type, overall_confidence,
                is_readable, fields, validation_errors, fraud_signals, recommendation,
                explanation, exception, extract_calls>>

\* the state outside it
beyond_invocation ==
    <<history, invocations, arguments, response, verification_requests, audit_logs>>

\* the two tables of the database
database == <<verification_requests, audit_logs>>

(***************************************************************************)
(* Bounds of the model.                                                    *)
(***************************************************************************)
\* longest list of validation errors handed to determine_recommendation
MaxErrors == 4
\* longest list of fraud signals handed to determine_recommendation
MaxSignals == 2
\* most calls of the decision functions in one history
MaxCalls == 2
\* pipeline invocations in flight together
NumInvocations == 2

(***************************************************************************)
(* Text helpers.                                                           *)
(***************************************************************************)
Digits == <<"0", "1", "2", "3", "4", "5", "6", "7", "8", "9">>

Digit(d) == Digits[d + 1]

\* str(n) / f"{n}" for a natural number, one character per token
RECURSIVE IntText(_)
IntText(n) == IF n < 10 THEN <<Digit(n)>> ELSE IntText(n \div 10) \o <<Digit(n % 10)>>

\* f"{x:.2f}" for x given in thousandths: rounded to hundredths.  The
\* confidences of the model never end in 5, so no tie has to be broken.
Fmt2(x) ==
    LET h == (x + 5) \div 10
    IN  IntText(h \div 100) \o <<".", Digit((h \div 10) % 10), Digit(h % 10)>>

\* `piece in text` for a one-token piece
Mentions(text, piece) == \E i \in DOMAIN text : text[i] = piece

(***************************************************************************)
(* Characters.                                                             *)
(***************************************************************************)
UpperLetters == <<"A", "B", "C", "D", "E", "F", "G", "H", "I", "J", "K", "L", "M",
                  "N", "O", "P", "Q", "R", "S", "T", "U", "V", "W", "X", "Y", "Z">>

LowerLetters == <<"a", "b", "c", "d", "e", "f", "g", "h", "i", "j", "k", "l", "m",
                  "n", "o", "p", "q", "r", "s", "t", "u", "v", "w", "x", "y", "z">>

IsDigit(c) == \E i \in DOMAIN Digits : Digits[i] = c

DigitVal(c) == (CHOOSE i \in DOMAIN Digits : Digits[i] = c) - 1

IsUpper(c) == \E i \in DOMAIN UpperLetters : UpperLetters[i] = c

IsLower(c) == \E i \in DOMAIN LowerLetters : LowerLetters[i] = c

IsSpace(c) == c \in {" ", "\t", "\n", "\r"}

LowerChar(c) ==
    IF IsUpper(c) THEN LowerLetters[CHOOSE i \in DOMAIN UpperLetters : UpperLetters[i] = c]
    ELSE c

UpperChar(c) ==
    IF IsLower(c) THEN UpperLetters[CHOOSE i \in DOMAIN LowerLetters : LowerLetters[i] = c]
    ELSE c

\* str.lower() and str.upper()
Lower(s) == [i \in DOMAIN s |-> LowerChar(s[i])]

Upper(s) == [i \in DOMAIN s |-> UpperChar(s[i])]

\* str.strip()
RECURSIVE LStrip(_)
LStrip(s) == IF s # <<>> /\ IsSpace(Head(s)) THEN LStrip(Tail(s)) ELSE s

RECURSIVE RStrip(_)
RStrip(s) ==
    IF s # <<>> /\ IsSpace(s[Len(s)]) THEN RStrip(SubSeq(s, 1, Len(s) - 1)) ELSE s

Strip(s) == RStrip(LStrip(s))

\* `piece in s` for texts written one character per token
Contains(s, piece) ==
    \E i \in 0..(Len(s) - Len(piece)) : SubSeq(s, i + 1, i + Len(piece)) = piece

\* the value of a string of decimal digits
RECURSIVE DigitsValue(_)
DigitsValue(s) ==
    IF s = <<>> THEN 0 ELSE 10 * DigitsValue(SubSeq(s, 1, Len(s) - 1)) + DigitVal(s[Len(s)])

AllDigits(s) == \A i \in DOMAIN s : IsDigit(s[i])

(***************************************************************************)
(* JSON values (json.loads) and the Python operations the code applies to   *)
(* them.                                                                   *)
(***************************************************************************)
JNull == [t |-> "null"]

JBool(b) == [t |-> "bool", b |-> b]

\* a JSON integer
JInt(i) == [t |-> "int", i |-> i]

\* a JSON number with a fraction, in thousandths
JFloat(m) == [t |-> "float", m |-> m]

JStr(s) == [t |-> "str", s |-> s]

JList(l) == [t |-> "list", l |-> l]

\* a dict in insertion order: a sequence of [k |-> key, v |-> value] items
JDict(items) == [t |-> "dict", items |-> items]

Item(k, v) == [k |-> k, v |-> v]

Ok(v) == [ok |-> TRUE, val |-> v]

Raise(e) == [ok |-> FALSE, exc |-> e]

HasKey(d, key) == \E i \in DOMAIN d.items : d.items[i].k = key

\* dict.get(key, default)
DictGet(d, key, default) ==
    IF HasKey(d, key)
    THEN d.items[CHOOSE i \in DOMAIN d.items : d.items[i].k = key].v
    ELSE default

\* obj.get(key, default): only a dict has .get
PyGet(obj, key, default) ==
    IF obj.t = "dict" THEN Ok(DictGet(obj, key, default)) ELSE Raise("AttributeError")

\* bool(v)
Truthy(v) ==
    CASE v.t = "null"  -> FALSE
      [] v.t = "bool"  -> v.b
      [] v.t = "int"   -> v.i # 0
      [] v.t = "float" -> v.m # 0
      [] v.t = "str"   -> v.s # <<>>
      [] v.t = "list"  -> v.l # <<>>
      [] v.t = "dict"  -> v.items # <<>>

IsNumber(v) == v.t \in {"int", "float", "bool"}

\* the numeric value in thousandths (a bool is the integer 0 or 1)
NumValue(v) ==
    CASE v.t = "int"   -> 1000 * v.i
      [] v.t = "float" -> v.m
      [] v.t = "bool"  -> IF v.b THEN 1000 ELSE 0

\* repr of a non-negative float given in thousandths: "0.5", "0.85", "1.0"
FloatText(m) ==
    LET frac == m % 1000
        fracText == IF frac % 100 = 0 THEN <<Digit(frac \div 100)>>
                    ELSE IF frac % 10 = 0
                    THEN <<Digit(frac \div 100), Digit((frac \div 10) % 10)>>
                    ELSE <<Digit(frac \div 100), Digit((frac \div 10) % 10), Digit(frac % 10)>>
    IN  IntText(m \div 1000) \o <<".">> \o fracText

\* str(v) / f"{v}" of a scalar; the repr of a container is a single token
PyStr(v) ==
    CASE v.t = "null"  -> <<"N", "o", "n", "e">>
      [] v.t = "bool"  -> IF v.b THEN <<"T", "r", "u", "e">> ELSE <<"F", "a", "l", "s", "e">>
      [] v.t = "int"   -> IntText(v.i)
      [] v.t = "float" -> FloatText(v.m)
      [] v.t = "str"   -> v.s
      [] v.t = "list"  -> <<"[...]">>
      [] v.t = "dict"  -> <<"{...}">>

\* float("d+") and float("d+.d+"), in thousandths; anything else is no number
ParsesAsFloat(s) ==
    \/ s # <<>> /\ AllDigits(s)
    \/ \E i \in 2..(Len(s) - 1) :
          /\ s[i] = "."
          /\ AllDigits(SubSeq(s, 1, i - 1))
          /\ AllDigits(SubSeq(s, i + 1, Len(s)))
          /\ Len(s) - i <= 3

ParsedFloat(s) ==
    IF AllDigits(s) THEN 1000 * DigitsValue(s)
    ELSE LET i == CHOOSE j \in DOMAIN s : s[j] = "."
             frac == SubSeq(s, i + 1, Len(s))
             scale == IF Len(frac) = 1 THEN 100 ELSE IF Len(frac) = 2 THEN 10 ELSE 1
         IN  1000 * DigitsValue(SubSeq(s, 1, i - 1)) + scale * DigitsValue(frac)

\* float(v), in thousandths
PyFloat(v) ==
    CASE IsNumber(v) -> Ok(NumValue(v))
      [] v.t = "str" -> IF ParsesAsFloat(Strip(v.s)) THEN Ok(ParsedFloat(Strip(v.s)))
                        ELSE Raise("ValueError")
      [] OTHER       -> Raise("TypeError")

\* v < threshold, the threshold a float in thousandths
PyLess(v, threshold) ==
    IF IsNumber(v) THEN Ok(NumValue(v) < threshold) ELSE Raise("TypeError")

\* `for x in v`: the sequence of elements iterated
PyIter(v) ==
    CASE v.t = "list" -> Ok(v.l)
      [] v.t = "str"  -> Ok([i \in DOMAIN v.s |-> JStr(<<v.s[i]>>)])
      [] v.t = "dict" -> Ok([i \in DOMAIN v.items |-> JStr(<<v.items[i].k>>)])
      [] OTHER        -> Raise("TypeError")

(***************************************************************************)
(* schemas/document.py                                                     *)
(***************************************************************************)
Recommendation == {"APPROVE", "REVIEW", "REJECT"}

Severity == {"LOW", "MEDIUM", "HIGH"}

FraudSignal(type, description, severity) ==
    [type |-> type, description |-> description, severity |-> severity]

DocumentTypeValue ==
    [ aadhaar           |-> <<"a", "a", "d", "h", "a", "a", "r">>,
      pan               |-> <<"p", "a", "n">>,
      voter_id          |-> <<"v", "o", "t", "e", "r", "_", "i", "d">>,
      driving_license   |-> <<"d", "r", "i", "v", "i", "n", "g", "_",
                              "l", "i", "c", "e", "n", "s", "e">>,
      passport          |-> <<"p", "a", "s", "s", "p", "o", "r", "t">>,
      birth_certificate |-> <<"b", "i", "r", "t", "h", "_",
                              "c", "e", "r", "t", "i", "f", "i", "c", "a", "t", "e">>,
      unknown           |-> <<"u", "n", "k", "n", "o", "w", "n">> ]

\* the members of the enum, named by their value
DocumentTypes == DOMAIN DocumentTypeValue

\* DocumentType(text): the member with that value, or ValueError
DocumentType(text) ==
    IF \E m \in DocumentTypes : DocumentTypeValue[m] = text
    THEN Ok(CHOOSE m \in DocumentTypes : DocumentTypeValue[m] = text)
    ELSE Raise("ValueError")

ExtractedField(value, confidence) == [value |-> value, confidence |-> confidence]

(***************************************************************************)
(* datetime.strptime for the formats of validate_dob.  A date is           *)
(* <<year, month, day>>.                                                   *)
(***************************************************************************)
MonthNames ==
    << <<"j", "a", "n", "u", "a", "r", "y">>, <<"f", "e", "b", "r", "u", "a", "r", "y">>,
       <<"m", "a", "r", "c", "h">>, <<"a", "p", "r", "i", "l">>, <<"m", "a", "y">>,
       <<"j", "u", "n", "e">>, <<"j", "u", "l", "y">>, <<"a", "u", "g", "u", "s", "t">>,
       <<"s", "e", "p", "t", "e", "m", "b", "e", "r">>, <<"o", "c", "t", "o", "b", "e", "r">>,
       <<"n", "o", "v", "e", "m", "b", "e", "r">>, <<"d", "e", "c", "e", "m", "b", "e", "r">> >>

\* text[i .. i+n-1], or <<>> when the text is too short
Slice(text, i, n) == IF i + n - 1 <= Len(text) THEN SubSeq(text, i, i + n - 1) ELSE <<>>

\* the value of the n digits at position i, or -1 when they are not n digits
NumberAt(text, i, n) ==
    IF i + n - 1 <= Len(text) /\ AllDigits(SubSeq(text, i, i + n - 1))
    THEN DigitsValue(SubSeq(text, i, i + n - 1))
    ELSE -1

\* %d at position i, as pairs <<next position, day>>:
\* 3[0-1] | [1-2]\d | 0[1-9] | [1-9] | " "[1-9]
\* (one or two digits worth 1..31, or a space and one digit)
MatchDay(text, i) ==
    { <<i + c[1] + c[2], c[3]>> :
        c \in { d \in { <<skip, n, NumberAt(text, i + skip, n)>> :
                          skip \in {0, 1}, n \in {1, 2} } :
                  /\ d[3] \in 1..31
                  /\ d[1] = 1 => (d[2] = 1 /\ text[i] = " ") } }

\* %m at position i: 1[0-2] | 0[1-9] | [1-9]
MatchMonth(text, i) ==
    { <<i + c[1], c[2]>> :
        c \in { d \in { <<n, NumberAt(text, i, n)>> : n \in {1, 2} } : d[2] \in 1..12 } }

\* %Y at position i: exactly four digits
MatchYear(text, i) ==
    { <<i + 4, y>> : y \in { NumberAt(text, i, 4) } \ {-1} }

\* %B (full name) or %b (its first three letters) at position i, in any case
MatchMonthName(text, i, full) ==
    { <<i + Len(c[2]), c[1]>> :
        c \in { d \in { <<m, IF full THEN MonthNames[m] ELSE SubSeq(MonthNames[m], 1, 3)>> :
                          m \in DOMAIN MonthNames } :
                  Lower(Slice(text, i, Len(d[2]))) = d[2] } }

\* white space of the format at position i: \s+
MatchSpace(text, i) ==
    { j \in (i + 1)..(Len(text) + 1) : \A k \in i..(j - 1) : IsSpace(text[k]) }

\* one directive or literal character of a format at position i, as pairs
\* <<next position, component set ("Y", "m", "d" or "-"), its value>>
MatchElement(e, text, i) ==
    CASE e = "%d" -> { <<r[1], "d", r[2]>> : r \in MatchDay(text, i) }
      [] e = "%m" -> { <<r[1], "m", r[2]>> : r \in MatchMonth(text, i) }
      [] e \in {"%b", "%B"} ->
                     { <<r[1], "m", r[2]>> : r \in MatchMonthName(text, i, e = "%B") }
      [] e = "%Y" -> { <<r[1], "Y", r[2]>> : r \in MatchYear(text, i) }
      [] e = " "  -> { <<j, "-", 0>> : j \in MatchSpace(text, i) }
      [] OTHER    -> IF i <= Len(text) /\ text[i] = e THEN {<<i + 1, "-", 0>>} ELSE {}

\* a date <<year, month, day>> with the matched component set
WithComponent(date, r) ==
    CASE r[2] = "Y" -> [date EXCEPT ![1] = r[3]]
      [] r[2] = "m" -> [date EXCEPT ![2] = r[3]]
      [] r[2] = "d" -> [date EXCEPT ![3] = r[3]]
      [] OTHER      -> date

\* the dates a format (a sequence of directives and literal characters)
\* reads from the whole of the text, from position i on
RECURSIVE MatchFormat(_, _, _, _)
MatchFormat(fmt, text, i, date) ==
    IF fmt = <<>> THEN (IF i = Len(text) + 1 THEN {date} ELSE {})
    ELSE UNION { MatchFormat(Tail(fmt), text, r[1], WithComponent(date, r)) :
                   r \in MatchElement(Head(fmt), text, i) }

IsLeap(y) == y % 4 = 0 /\ (y % 100 # 0 \/ y % 400 = 0)

DaysInMonth(y, m) ==
    IF m = 2 THEN (IF IsLeap(y) THEN 29 ELSE 28)
    ELSE IF m \in {4, 6, 9, 11} THEN 30 ELSE 31

\* datetime(year, month, day) exists
ValidDate(date) == date[1] >= 1 /\ date[3] <= DaysInMonth(date[1], date[2])

\* datetime.strptime(text, fmt): the date, or ValueError
strptime(text, fmt) ==
    LET Pick(found) == IF found = {} THEN Raise("ValueError")
                       ELSE Ok(CHOOSE d \in found : TRUE)
    IN  Pick({ d \in MatchFormat(fmt, text, 1, <<0, 0, 0>>) : ValidDate(d) })

\* a > b on dates
DateAfter(a, b) ==
    \/ a[1] > b[1]
    \/ a[1] = b[1] /\ a[2] > b[2]
    \/ a[1] = b[1] /\ a[2] = b[2] /\ a[3] > b[3]

(***************************************************************************)
(* services/validator.py.  `raw` is the raw fields dict; every operator    *)
(* yields Ok(list of messages) or the exception the Python code raises.     *)
(***************************************************************************)
\* fields.get(name, {}).get("value", "")
FieldValue(raw, name) ==
    LET entry == PyGet(raw, name, JDict(<<>>))
    IN  IF ~entry.ok THEN entry ELSE PyGet(entry.val, "value", JStr(<<>>))

\* re.sub(r'\s+', '', text)
RemoveSpaces(text) == SelectSeq(text, LAMBDA c : ~IsSpace(c))

\* validate_aadhaar without the re.sub that removes white space
validate_aadhaar_unstripped(raw) ==
    LET Check(got) ==
            IF ~got.ok THEN got
            ELSE IF got.val.t # "str" THEN Raise("TypeError")
            ELSE LET Match(clean_id) ==
                         IF Len(clean_id) = 12 /\ AllDigits(clean_id) THEN <<>>
                         ELSE << <<"Aadhaar number must be exactly ", "12 digits">> >>
                 IN  Ok(Match(got.val.s))
    IN  Check(FieldValue(raw, "id_number"))

validate_aadhaar(raw) ==
    LET Check(got) ==
            IF ~got.ok THEN got
            ELSE IF got.val.t # "str" THEN Raise("TypeError")
            ELSE LET Match(clean_id) ==
                         IF Len(clean_id) = 12 /\ AllDigits(clean_id) THEN <<>>
                         ELSE << <<"Aadhaar number must be exactly ", "12 digits">> >>
                 IN  Ok(Match(RemoveSpaces(got.val.s)))
    IN  Check(FieldValue(raw, "id_number"))

\* validate_pan without .upper()
validate_pan_case_sensitive(raw) ==
    LET Check(got) ==
            IF ~got.ok THEN got
            ELSE IF got.val.t # "str" THEN Raise("AttributeError")
            ELSE LET Match(clean_id) ==
                         IF /\ Len(clean_id) = 10
                            /\ \A i \in 1..5 : IsUpper(clean_id[i])
                            /\ \A i \in 6..9 : IsDigit(clean_id[i])
                            /\ IsUpper(clean_id[10])
                         THEN <<>>
                         ELSE << <<"PAN number must be in format ABCDE1234F">> >>
                 IN  Ok(Match(Strip(got.val.s)))
    IN  Check(FieldValue(raw, "id_number"))

validate_pan(raw) ==
    LET Check(got) ==
            IF ~got.ok THEN got
            ELSE IF got.val.t # "str" THEN Raise("AttributeError")
            ELSE LET Match(clean_id) ==
                         IF /\ Len(clean_id) = 10
                            /\ \A i \in 1..5 : IsUpper(clean_id[i])
                            /\ \A i \in 6..9 : IsDigit(clean_id[i])
                            /\ IsUpper(clean_id[10])
                         THEN <<>>
                         ELSE << <<"PAN number must be in format ABCDE1234F">> >>
                 IN  Ok(Match(Strip(Upper(got.val.s))))
    IN  Check(FieldValue(raw, "id_number"))

validate_voter_id(raw) ==
    LET Check(got) ==
            IF ~got.ok THEN got
            ELSE IF got.val.t # "str" THEN Raise("AttributeError")
            ELSE LET Match(clean_id) ==
                         IF /\ Len(clean_id) = 10
                            /\ \A i \in 1..3 : IsUpper(clean_id[i])
                            /\ \A i \in 4..10 : IsDigit(clean_id[i])
                         THEN <<>>
                         ELSE << <<"Voter ID format appears invalid">> >>
                 IN  Ok(Match(Strip(Upper(got.val.s))))
    IN  Check(FieldValue(raw, "id_number"))

\* date_formats, each a sequence of directives and literal characters
date_formats ==
    << <<"%d", "-", "%m", "-", "%Y">>,
       <<"%d", "/", "%m", "/", "%Y">>,
       <<"%Y", "-", "%m", "-", "%d">>,
       <<"%d", " ", "%b", " ", "%Y">>,
       <<"%d", " ", "%B", " ", "%Y">> >>

\* the loop over date_formats from the k-th on: the date of the first format
\* that parses, or None
RECURSIVE ParseDob(_, _)
ParseDob(text, k) ==
    LET FirstOk(parsed) == IF parsed.ok THEN parsed ELSE ParseDob(text, k + 1)
    IN  IF k > Len(date_formats) THEN JNull
        ELSE FirstOk(strptime(text, date_formats[k]))

\* validate_dob without the early return for an empty or missing dob
validate_dob_requiring(raw, today) ==
    LET Judge(dob, parsed_date) ==
            IF parsed_date = JNull
            THEN << <<"Could not parse date of birth: ">> \o dob >>
            ELSE IF DateAfter(parsed_date.val, today)
            THEN << <<"Date of birth cannot be in the future">> >>
            ELSE IF parsed_date.val[1] < 1900
            THEN << <<"Date of birth year seems too old">> >>
            ELSE <<>>
        Check(got) ==
            IF ~got.ok THEN got
            ELSE IF got.val.t # "str" THEN Raise("TypeError")
            ELSE Ok(Judge(got.val.s, ParseDob(got.val.s, 1)))
    IN  Check(FieldValue(raw, "dob"))

\* `today` is the date of datetime.now()
validate_dob(raw, today) ==
    LET Judge(dob, parsed_date) ==
            IF parsed_date = JNull
            THEN << <<"Could not parse date of birth: ">> \o dob >>
            ELSE IF DateAfter(parsed_date.val, today)
            THEN << <<"Date of birth cannot be in the future">> >>
            ELSE IF parsed_date.val[1] < 1900
            THEN << <<"Date of birth year seems too old">> >>
            ELSE <<>>
        Check(got) ==
            IF ~got.ok THEN got
            ELSE IF ~Truthy(got.val) THEN Ok(<<>>)
            ELSE IF got.val.t # "str" THEN Raise("TypeError")
            ELSE Ok(Judge(got.val.s, ParseDob(got.val.s, 1)))
    IN  Check(FieldValue(raw, "dob"))

\* [0-9@#$%^&*()_+=\[\]{}|\\<>]
SuspiciousChars ==
    {"0", "1", "2", "3", "4", "5", "6", "7", "8", "9", "@", "#", "$", "%", "^", "&",
     "*", "(", ")", "_", "+", "=", "[", "]", "{", "}", "|", "\\", "<", ">"}

validate_name(raw) ==
    LET Check(got) ==
            IF ~got.ok THEN got
            ELSE IF got.val.t # "str"
            THEN \* a truthy value has no .strip(); a falsy one reaches re.search
                 Raise(IF Truthy(got.val) THEN "AttributeError" ELSE "TypeError")
            ELSE Ok((IF got.val.s = <<>> \/ Len(Strip(got.val.s)) < 2
                     THEN << <<"Name field is missing or too short">> >> ELSE <<>>)
                    \o
                    (IF \E i \in DOMAIN got.val.s : got.val.s[i] \in SuspiciousChars
                     THEN << <<"Name contains suspicious characters">> >> ELSE <<>>))
    IN  Check(FieldValue(raw, "name"))

\* errors.extend(...) of the next check, unless a check has raised
Extend(errors, more) ==
    IF ~errors.ok THEN errors
    ELSE IF ~more.ok THEN more
    ELSE Ok(errors.val \o more.val)

\* validate_fields returning as soon as the name check has found an error
validate_fields_stopping(document_type, raw, today) ==
    LET Rest(name_errors) ==
            IF name_errors.ok /\ name_errors.val # <<>> THEN name_errors
            ELSE Extend(Extend(name_errors, validate_dob(raw, today)),
                        CASE document_type = "aadhaar"  -> validate_aadhaar(raw)
                          [] document_type = "pan"      -> validate_pan(raw)
                          [] document_type = "voter_id" -> validate_voter_id(raw)
                          [] OTHER                      -> Ok(<<>>))
    IN  Rest(validate_name(raw))

\* validate_fields applying the Aadhaar rule to the types without a rule
validate_fields_id_for_all(document_type, raw, today) ==
    Extend(Extend(validate_name(raw), validate_dob(raw, today)),
           CASE document_type = "pan"      -> validate_pan(raw)
             [] document_type = "voter_id" -> validate_voter_id(raw)
             [] OTHER                      -> validate_aadhaar(raw))

validate_fields(document_type, raw, today) ==
    Extend(Extend(validate_name(raw), validate_dob(raw, today)),
           CASE document_type = "aadhaar"  -> validate_aadhaar(raw)
             [] document_type = "pan"      -> validate_pan(raw)
             [] document_type = "voter_id" -> validate_voter_id(raw)
             [] OTHER                      -> Ok(<<>>))

(***************************************************************************)
(* services/fraud.py                                                       *)
(***************************************************************************)
\* the loop of check_low_confidence over fields.items()
RECURSIVE FieldConfidenceSignals(_)
FieldConfidenceSignals(items) ==
    LET Signal(field_name, confidence, low) ==
            IF ~low.ok THEN low
            ELSE IF low.val
            THEN Ok(<< FraudSignal("LOW_FIELD_CONFIDENCE",
                         <<"Field '", field_name, "' has very low confidence (">>
                           \o Fmt2(NumValue(confidence)) \o <<")">>,
                         "LOW") >>)
            ELSE Ok(<<>>)
        Check(field_name, confidence) ==
            Signal(field_name, confidence, PyLess(confidence, 300))
    IN  IF items = <<>> THEN Ok(<<>>)
        ELSE Extend(IF Head(items).v.t # "dict" THEN Ok(<<>>)
                    ELSE Check(Head(items).k,
                               DictGet(Head(items).v, "confidence", JInt(0))),
                    FieldConfidenceSignals(Tail(items)))

\* check_low_confidence flagging an overall confidence of exactly 0.5 as well
check_low_confidence_inclusive(result) ==
    LET Check(overall, low, raw) ==
            IF ~low.ok THEN low
            ELSE IF raw.t # "dict" THEN Raise("AttributeError")
            ELSE Extend(
                   Ok(IF low.val
                      THEN << FraudSignal("LOW_CONFIDENCE",
                                <<"Overall extraction confidence is very low (">>
                                  \o Fmt2(NumValue(overall)) \o <<")">>,
                                "MEDIUM") >>
                      ELSE <<>>),
                   FieldConfidenceSignals(raw.items))
    IN  Check(DictGet(result, "confidence", JInt(0)),
              PyLess(DictGet(result, "confidence", JInt(0)), 501),
              DictGet(result, "fields", JDict(<<>>)))

\* check_low_confidence with the default the pipeline uses for its own copy
check_low_confidence_default_half(result) ==
    LET Check(overall, low, raw) ==
            IF ~low.ok THEN low
            ELSE IF raw.t # "dict" THEN Raise("AttributeError")
            ELSE Extend(
                   Ok(IF low.val
                      THEN << FraudSignal("LOW_CONFIDENCE",
                                <<"Overall extraction confidence is very low (">>
                                  \o Fmt2(NumValue(overall)) \o <<")">>,
                                "MEDIUM") >>
                      ELSE <<>>),
                   FieldConfidenceSignals(raw.items))
    IN  Check(DictGet(result, "confidence", JFloat(500)),
              PyLess(DictGet(result, "confidence", JFloat(500)), 500),
              DictGet(result, "fields", JDict(<<>>)))

check_low_confidence(result) ==
    LET Check(overall, low, raw) ==
            IF ~low.ok THEN low
            ELSE IF raw.t # "dict" THEN Raise("AttributeError")
            ELSE Extend(
                   Ok(IF low.val
                      THEN << FraudSignal("LOW_CONFIDENCE",
                                <<"Overall extraction confidence is very low (">>
                                  \o Fmt2(NumValue(overall)) \o <<")">>,
                                "MEDIUM") >>
                      ELSE <<>>),
                   FieldConfidenceSignals(raw.items))
    IN  Check(DictGet(result, "confidence", JInt(0)),
              PyLess(DictGet(result, "confidence", JInt(0)), 500),
              DictGet(result, "fields", JDict(<<>>)))

\* code points U+0900..U+097F, each written as one token
Devanagari == {"U+0915", "U+092E", "U+0930", "U+093E"}

check_field_consistency(result) ==
    LET Scripts(name) ==
            IF /\ \E i \in DOMAIN name : name[i] \in Devanagari
               /\ \E i \in DOMAIN name : IsLower(LowerChar(name[i]))
               /\ Len(name) > 20
            THEN << FraudSignal("MIXED_SCRIPTS",
                      <<"Name field contains mixed scripts - verify authenticity">>,
                      "LOW") >>
            ELSE <<>>
        Check(got) ==
            IF ~got.ok THEN got
            ELSE IF got.val.t = "str" THEN Ok(Scripts(got.val.s))
            ELSE IF got.val.t \in {"list", "dict"} /\ ~Truthy(got.val) THEN Ok(<<>>)
            ELSE \* None, a bool or a number is not iterable.  (A non-empty list or
                 \* dict as value of name, which FieldChoices does not hold, is
                 \* not distinguished from these.)
                 Raise("TypeError")
    IN  Check(FieldValue(DictGet(result, "fields", JDict(<<>>)), "name"))

\* IssueSeverity looking for "blur" and "quality" before "tamper" and "edit"
IssueSeverity_blur_first(issue) ==
    LET Has(lowered, words) == \E w \in words : Contains(lowered, w)
        Grade(lowered) ==
            IF Has(lowered, { <<"b", "l", "u", "r">>,
                              <<"q", "u", "a", "l", "i", "t", "y">> })
            THEN "LOW"
            ELSE IF Has(lowered, { <<"t", "a", "m", "p", "e", "r">>, <<"e", "d", "i", "t">> })
            THEN "HIGH"
            ELSE "MEDIUM"
    IN  Grade(Lower(issue))

\* the severity check_issues_from_vlm gives an issue text
IssueSeverity(issue) ==
    LET Has(lowered, words) == \E w \in words : Contains(lowered, w)
        Grade(lowered) ==
            IF Has(lowered, { <<"t", "a", "m", "p", "e", "r">>, <<"e", "d", "i", "t">> })
            THEN "HIGH"
            ELSE IF Has(lowered, { <<"b", "l", "u", "r">>,
                                   <<"q", "u", "a", "l", "i", "t", "y">> })
            THEN "LOW"
            ELSE "MEDIUM"
    IN  Grade(Lower(issue))

check_issues_from_vlm(result) ==
    LET Signals(texts) ==
            [i \in DOMAIN texts |->
               FraudSignal("VLM_DETECTED_ISSUE", texts[i].s, IssueSeverity(texts[i].s))]
        Check(issues) ==
            IF ~issues.ok THEN issues
            ELSE Ok(Signals(SelectSeq(issues.val, LAMBDA issue : issue.t = "str")))
    IN  Check(PyIter(DictGet(result, "issues", JList(<<>>))))

\* "Suspicious: x" / "Tampering detected: x" signals of the elements iterated
ElementSignals(elements, type, prefix, severity) ==
    [i \in DOMAIN elements |-> FraudSignal(type, prefix \o PyStr(elements[i]), severity)]

\* check_llm_fraud_analysis grading a validity score of exactly 0.4 as HIGH
check_llm_fraud_analysis_high_at_0_4(result) ==
    LET Signals(fraud_data, validity_score, suspicious_elements, alterations) ==
            IF ~validity_score.ok THEN validity_score
            ELSE IF ~suspicious_elements.ok THEN suspicious_elements
            ELSE IF ~alterations.ok THEN alterations
            ELSE Ok(
              (IF validity_score.val < 600
               THEN << FraudSignal("LOW_VALIDITY_SCORE",
                         <<"AI Validity Check Failed (">> \o Fmt2(validity_score.val)
                           \o <<"): ">>
                           \o PyStr(DictGet(fraud_data, "reasoning",
                                            JStr(<<"Low validity score detected">>))),
                         IF validity_score.val < 401 THEN "HIGH" ELSE "MEDIUM") >>
               ELSE <<>>)
              \o
              (IF ~Truthy(DictGet(fraud_data, "is_genuine_appearance", JBool(TRUE)))
               THEN << FraudSignal("VISUAL_ANOMALY",
                         <<"Document does not appear genuine (visual check failed)">>,
                         "HIGH") >>
               ELSE <<>>)
              \o
              ElementSignals(suspicious_elements.val,
                             "SUSPICIOUS_ELEMENT", <<"Suspicious: ">>, "MEDIUM")
              \o
              ElementSignals(alterations.val,
                             "ALTERATION_DETECTED", <<"Tampering detected: ">>, "HIGH"))
        Check(fraud_data) ==
            IF ~Truthy(fraud_data) THEN Ok(<<>>)
            ELSE IF fraud_data.t # "dict" THEN Raise("AttributeError")
            ELSE Signals(fraud_data,
                   PyFloat(DictGet(fraud_data, "validity_score", JFloat(1000))),
                   PyIter(DictGet(fraud_data, "suspicious_elements", JList(<<>>))),
                   PyIter(DictGet(fraud_data, "alterations_detected", JList(<<>>))))
    IN  Check(DictGet(result, "fraud_analysis", JDict(<<>>)))

check_llm_fraud_analysis(result) ==
    LET Signals(fraud_data, validity_score, suspicious_elements, alterations) ==
            IF ~validity_score.ok THEN validity_score
            ELSE IF ~suspicious_elements.ok THEN suspicious_elements
            ELSE IF ~alterations.ok THEN alterations
            ELSE Ok(
              (IF validity_score.val < 600
               THEN << FraudSignal("LOW_VALIDITY_SCORE",
                         <<"AI Validity Check Failed (">> \o Fmt2(validity_score.val)
                           \o <<"): ">>
                           \o PyStr(DictGet(fraud_data, "reasoning",
                                            JStr(<<"Low validity score detected">>))),
                         IF validity_score.val < 400 THEN "HIGH" ELSE "MEDIUM") >>
               ELSE <<>>)
              \o
              (IF ~Truthy(DictGet(fraud_data, "is_genuine_appearance", JBool(TRUE)))
               THEN << FraudSignal("VISUAL_ANOMALY",
                         <<"Document does not appear genuine (visual check failed)">>,
                         "HIGH") >>
               ELSE <<>>)
              \o
              ElementSignals(suspicious_elements.val,
                             "SUSPICIOUS_ELEMENT", <<"Suspicious: ">>, "MEDIUM")
              \o
              ElementSignals(alterations.val,
                             "ALTERATION_DETECTED", <<"Tampering detected: ">>, "HIGH"))
        Check(fraud_data) ==
            IF ~Truthy(fraud_data) THEN Ok(<<>>)
            ELSE IF fraud_data.t # "dict" THEN Raise("AttributeError")
            ELSE Signals(fraud_data,
                   PyFloat(DictGet(fraud_data, "validity_score", JFloat(1000))),
                   PyIter(DictGet(fraud_data, "suspicious_elements", JList(<<>>))),
                   PyIter(DictGet(fraud_data, "alterations_detected", JList(<<>>))))
    IN  Check(DictGet(result, "fraud_analysis", JDict(<<>>)))

\* detect_fraud_signals running the forensic check before the issues check
detect_fraud_signals_reordered(result) ==
    Extend(Extend(Extend(check_low_confidence(result),
                         check_field_consistency(result)),
                  check_llm_fraud_analysis(result)),
           check_issues_from_vlm(result))

detect_fraud_signals(result) ==
    Extend(Extend(Extend(check_low_confidence(result),
                         check_field_consistency(result)),
                  check_issues_from_vlm(result)),
           check_llm_fraud_analysis(result))

(***************************************************************************)
(* services/pipeline.py: determine_recommendation.  `confidence` and        *)
(* `readable` are Python values: a number and anything with a truth value. *)
(***************************************************************************)
\* Variant of high_severity_frauds that lists the HIGH signals last-first.
high_severity_frauds_reversed(signals) ==
    LET high == SelectSeq(signals, LAMBDA s : s.severity = "HIGH")
    IN  [i \in 1..Len(high) |-> high[Len(high) + 1 - i]]

\* [s for s in fraud_signals if s.severity == "HIGH"]
high_severity_frauds(signals) == SelectSeq(signals, LAMBDA s : s.severity = "HIGH")

\* Variant: a HIGH fraud signal is answered with REJECT.
determine_recommendation_rejecting(errors, signals, confidence, readable) ==
    IF ~Truthy(readable)
    THEN <<"REVIEW", <<"Document is not readable or too low quality">>>>
    ELSE IF high_severity_frauds(signals) # <<>>
    THEN <<"REJECT",
           <<"Potential fraud detected: ">> \o high_severity_frauds(signals)[1].description>>
    ELSE IF Len(errors) >= 3
    THEN <<"REVIEW",
           <<"Multiple validation issues found (">> \o IntText(Len(errors)) \o <<" errors)">>>>
    ELSE IF NumValue(confidence) < 600
    THEN <<"REVIEW", <<"Low extraction confidence (">> \o Fmt2(NumValue(confidence)) \o <<")">>>>
    ELSE IF errors # <<>> \/ signals # <<>>
    THEN IF NumValue(confidence) >= 800
         THEN <<"APPROVE", <<"Minor issues detected but confidence is high">>>>
         ELSE <<"REVIEW", <<"Some issues require manual verification">>>>
    ELSE IF NumValue(confidence) >= 850
    THEN <<"APPROVE", <<"All checks passed with high confidence">>>>
    ELSE <<"APPROVE", <<"Verification complete with acceptable confidence">>>>

\* Variant: the readability rule is tested after the fraud rule.
determine_recommendation_fraud_first(errors, signals, confidence, readable) ==
    IF high_severity_frauds(signals) # <<>>
    THEN <<"REVIEW",
           <<"Potential fraud detected: ">> \o high_severity_frauds(signals)[1].description>>
    ELSE IF ~Truthy(readable)
    THEN <<"REVIEW", <<"Document is not readable or too low quality">>>>
    ELSE IF Len(errors) >= 3
    THEN <<"REVIEW",
           <<"Multiple validation issues found (">> \o IntText(Len(errors)) \o <<" errors)">>>>
    ELSE IF NumValue(confidence) < 600
    THEN <<"REVIEW", <<"Low extraction confidence (">> \o Fmt2(NumValue(confidence)) \o <<")">>>>
    ELSE IF errors # <<>> \/ signals # <<>>
    THEN IF NumValue(confidence) >= 800
         THEN <<"APPROVE", <<"Minor issues detected but confidence is high">>>>
         ELSE <<"REVIEW", <<"Some issues require manual verification">>>>
    ELSE IF NumValue(confidence) >= 850
    THEN <<"APPROVE", <<"All checks passed with high confidence">>>>
    ELSE <<"APPROVE", <<"Verification complete with acceptable confidence">>>>

\* Variant: the error-count rule needs more than 3 errors.
determine_recommendation_more_than_3(errors, signals, confidence, readable) ==
    IF ~Truthy(readable)
    THEN <<"REVIEW", <<"Document is not readable or too low quality">>>>
    ELSE IF high_severity_frauds(signals) # <<>>
    THEN <<"REVIEW",
           <<"Potential fraud detected: ">> \o high_severity_frauds(signals)[1].description>>
    ELSE IF Len(errors) > 3
    THEN <<"REVIEW",
           <<"Multiple validation issues found (">> \o IntText(Len(errors)) \o <<" errors)">>>>
    ELSE IF NumValue(confidence) < 600
    THEN <<"REVIEW", <<"Low extraction confidence (">> \o Fmt2(NumValue(confidence)) \o <<")">>>>
    ELSE IF errors # <<>> \/ signals # <<>>
    THEN IF NumValue(confidence) >= 800
         THEN <<"APPROVE", <<"Minor issues detected but confidence is high">>>>
         ELSE <<"REVIEW", <<"Some issues require manual verification">>>>
    ELSE IF NumValue(confidence) >= 850
    THEN <<"APPROVE", <<"All checks passed with high confidence">>>>
    ELSE <<"APPROVE", <<"Verification complete with acceptable confidence">>>>

\* Variant: the low-confidence rule uses <= 0.5 as its threshold.
determine_recommendation_low_at_half(errors, signals, confidence, readable) ==
    IF ~Truthy(readable)
    THEN <<"REVIEW", <<"Document is not readable or too low quality">>>>
    ELSE IF high_severity_frauds(signals) # <<>>
    THEN <<"REVIEW",
           <<"Potential fraud detected: ">> \o high_severity_frauds(signals)[1].description>>
    ELSE IF Len(errors) >= 3
    THEN <<"REVIEW",
           <<"Multiple validation issues found (">> \o IntText(Len(errors)) \o <<" errors)">>>>
    ELSE IF NumValue(confidence) <= 500
    THEN <<"REVIEW", <<"Low extraction confidence (">> \o Fmt2(NumValue(confidence)) \o <<")">>>>
    ELSE IF errors # <<>> \/ signals # <<>>
    THEN IF NumValue(confidence) >= 800
         THEN <<"APPROVE", <<"Minor issues detected but confidence is high">>>>
         ELSE <<"REVIEW", <<"Some issues require manual verification">>>>
    ELSE IF NumValue(confidence) >= 850
    THEN <<"APPROVE", <<"All checks passed with high confidence">>>>
    ELSE <<"APPROVE", <<"Verification complete with acceptable confidence">>>>

\* Variant: with issues present, APPROVE needs confidence above 0.8.
determine_recommendation_strict_minor(errors, signals, confidence, readable) ==
    IF ~Truthy(readable)
    THEN <<"REVIEW", <<"Document is not readable or too low quality">>>>
    ELSE IF high_severity_frauds(signals) # <<>>
    THEN <<"REVIEW",
           <<"Potential fraud detected: ">> \o high_severity_frauds(signals)[1].description>>
    ELSE IF Len(errors) >= 3
    THEN <<"REVIEW",
           <<"Multiple validation issues found (">> \o IntText(Len(errors)) \o <<" errors)">>>>
    ELSE IF NumValue(confidence) < 600
    THEN <<"REVIEW", <<"Low extraction confidence (">> \o Fmt2(NumValue(confidence)) \o <<")">>>>
    ELSE IF errors # <<>> \/ signals # <<>>
    THEN IF NumValue(confidence) > 800
         THEN <<"APPROVE", <<"Minor issues detected but confidence is high">>>>
         ELSE <<"REVIEW", <<"Some issues require manual verification">>>>
    ELSE IF NumValue(confidence) >= 850
    THEN <<"APPROVE", <<"All checks passed with high confidence">>>>
    ELSE <<"APPROVE", <<"Verification complete with acceptable confidence">>>>

\* Variant: only exactly three validation errors count as many.
determine_recommendation_exactly_3(errors, signals, confidence, readable) ==
    IF ~Truthy(readable)
    THEN <<"REVIEW", <<"Document is not readable or too low quality">>>>
    ELSE IF high_severity_frauds(signals) # <<>>
    THEN <<"REVIEW",
           <<"Potential fraud detected: ">> \o high_severity_frauds(signals)[1].description>>
    ELSE IF Len(errors) = 3
    THEN <<"REVIEW",
           <<"Multiple validation issues found (">> \o IntText(Len(errors)) \o <<" errors)">>>>
    ELSE IF NumValue(confidence) < 600
    THEN <<"REVIEW", <<"Low extraction confidence (">> \o Fmt2(NumValue(confidence)) \o <<")">>>>
    ELSE IF errors # <<>> \/ signals # <<>>
    THEN IF NumValue(confidence) >= 800
         THEN <<"APPROVE", <<"Minor issues detected but confidence is high">>>>
         ELSE <<"REVIEW", <<"Some issues require manual verification">>>>
    ELSE IF NumValue(confidence) >= 850
    THEN <<"APPROVE", <<"All checks passed with high confidence">>>>
    ELSE <<"APPROVE", <<"Verification complete with acceptable confidence">>>>

determine_recommendation(errors, signals, confidence, readable) ==
    IF ~Truthy(readable)
    THEN <<"REVIEW", <<"Document is not readable or too low quality">>>>
    ELSE IF high_severity_frauds(signals) # <<>>
    THEN <<"REVIEW",
           <<"Potential fraud detected: ">> \o high_severity_frauds(signals)[1].description>>
    ELSE IF Len(errors) >= 3
    THEN <<"REVIEW",
           <<"Multiple validation issues found (">> \o IntText(Len(errors)) \o <<" errors)">>>>
    ELSE IF NumValue(confidence) < 600
    THEN <<"REVIEW", <<"Low extraction confidence (">> \o Fmt2(NumValue(confidence)) \o <<")">>>>
    ELSE IF errors # <<>> \/ signals # <<>>
    THEN IF NumValue(confidence) >= 800
         THEN <<"APPROVE", <<"Minor issues detected but confidence is high">>>>
         ELSE <<"REVIEW", <<"Some issues require manual verification">>>>
    ELSE IF NumValue(confidence) >= 850
    THEN <<"APPROVE", <<"All checks passed with high confidence">>>>
    ELSE <<"APPROVE", <<"Verification complete with acceptable confidence">>>>

(***************************************************************************)
(* Inputs of the decision function.                                        *)
(***************************************************************************)
\* confidences around every threshold of the code (0.3, 0.5, 0.6, 0.8, 0.85)
Confidences == {0, 299, 300, 499, 500, 599, 600, 799, 800, 849, 850, 1000}

\* ["e1", "e2", ...]
ErrorList(n) == [i \in 1..n |-> <<"e">> \o IntText(i)]

SampleSignals ==
    { FraudSignal("VLM_DETECTED_ISSUE", <<"b", "l", "u", "r">>, "LOW"),
      FraudSignal("SUSPICIOUS_ELEMENT", <<"Suspicious: ", "f", "o", "n", "t">>, "MEDIUM"),
      FraudSignal("VISUAL_ANOMALY",
                  <<"Document does not appear genuine (visual check failed)">>, "HIGH"),
      FraudSignal("ALTERATION_DETECTED", <<"Tampering detected: ", "s", "e", "a", "l">>, "HIGH") }

SeqsUpTo(S, n) == UNION { [1..k -> S] : k \in 0..n }

NoValue == [t |-> "none"]

\* the dates the clock may show
Clock == { <<2026, 11, 3>>, <<2026, 11, 5>> }

\* no decision function called yet, no concurrent invocations, no tool call
NothingBeyond ==
    /\ history = <<>>
    /\ invocations = <<>>
    /\ arguments = NoValue
    /\ response = NoValue
    /\ verification_requests = <<>>
    /\ audit_logs = <<>>

(***************************************************************************)
(* SpecDecide: determine_recommendation applied to every bounded input.     *)
(***************************************************************************)
InitDecide ==
    /\ pc = "decide"
    /\ validation_errors \in { ErrorList(n) : n \in 0..MaxErrors }
    /\ fraud_signals \in SeqsUpTo(SampleSignals, MaxSignals)
    /\ overall_confidence \in { JFloat(c) : c \in Confidences }
    /\ is_readable \in { JBool(b) : b \in BOOLEAN }
    /\ recommendation = "" /\ explanation = <<>>
    /\ document_type_hint = NoValue /\ extraction_result = NoValue
    /\ doc_type = "" /\ fields = <<>> /\ exception = NoValue
    /\ extract_calls = 0
    /\ now \in Clock
    /\ NothingBeyond

Decide ==
    /\ pc = "decide"
    /\ LET r == determine_recommendation(validation_errors, fraud_signals,
                                         overall_confidence, is_readable)
       IN  recommendation' = r[1] /\ explanation' = r[2]
    /\ pc' = "decided"
    /\ UNCHANGED <<document_type_hint, extraction_result, doc_type, overall_confidence,
                   is_readable, fields, validation_errors, fraud_signals, exception,
                   extract_calls, now>>
    /\ UNCHANGED beyond_invocation

NextDecide == Decide

SpecDecide == InitDecide /\ [][NextDecide]_vars

(***************************************************************************)
(* services/pipeline.py: run_verification_pipeline                         *)
(***************************************************************************)
\* lines 82-90: the document type from the hint or the extraction result
resolve_doc_type(hint, result) ==
    LET OrUnknown(type) == IF type.ok THEN type ELSE Ok("unknown")
        FromResult(doc_type_str) ==
            IF doc_type_str.t # "str" THEN Raise("AttributeError")
            ELSE OrUnknown(DocumentType(Lower(doc_type_str.s)))
    IN  IF Truthy(hint) THEN DocumentType(Lower(hint.s))
        ELSE FromResult(DictGet(result, "document_type",
                                JStr(DocumentTypeValue["unknown"])))

\* lines 99-105: the ExtractedField of one raw entry
normalize_field(field_data) ==
    LET Field(value, confidence) ==
            IF ~confidence.ok THEN confidence
            ELSE Ok(ExtractedField(PyStr(value), confidence.val))
    IN  IF field_data.t = "dict"
        THEN Field(DictGet(field_data, "value", JStr(<<>>)),
                   PyFloat(DictGet(field_data, "confidence", JFloat(500))))
        ELSE Ok(ExtractedField(PyStr(field_data), 500))

\* lines 97-105: the loop over raw_fields.items(), filling `fields` in order
RECURSIVE normalize_items(_)
normalize_items(items) ==
    LET Put(field_name, one, rest) ==
            IF ~one.ok THEN one
            ELSE IF ~rest.ok THEN rest
            ELSE Ok(<<Item(field_name, one.val)>> \o rest.val)
    IN  IF items = <<>> THEN Ok(<<>>)
        ELSE Put(Head(items).k, normalize_field(Head(items).v),
                 normalize_items(Tail(items)))

normalize_fields(raw_fields) ==
    IF raw_fields.t # "dict" THEN Raise("AttributeError")
    ELSE normalize_items(raw_fields.items)

\* the locals of an invocation that has not assigned them yet
Blank ==
    [ doc_type |-> "", overall_confidence |-> NoValue, is_readable |-> NoValue,
      fields |-> <<>>, validation_errors |-> <<>>, fraud_signals |-> <<>>,
      recommendation |-> "", explanation |-> <<>>, exception |-> NoValue ]

Raised(locals, exc, where) == [locals EXCEPT !.exception = [exc |-> exc, in |-> where]]

\* lines 82-130: everything run_verification_pipeline does once extract_fields
\* has returned `result`; the locals at its return or at the raise.  Each
\* step takes the locals so far and the outcome of the call it follows.
run_after_extract(hint, result, today) ==
    LET Line114(l, verdict) ==
            [l EXCEPT !.recommendation = verdict[1], !.explanation = verdict[2]]
        Line111(l, signals) ==
            IF ~signals.ok THEN Raised(l, signals.exc, "detect_fraud_signals")
            ELSE Line114([l EXCEPT !.fraud_signals = signals.val],
                         determine_recommendation(l.validation_errors, signals.val,
                                                  l.overall_confidence, l.is_readable))
        Line108(l, errors) ==
            IF ~errors.ok THEN Raised(l, errors.exc, "validate_fields")
            ELSE Line111([l EXCEPT !.validation_errors = errors.val],
                         detect_fraud_signals(result))
        Line95(l, raw_fields, normalized) ==
            IF ~normalized.ok THEN Raised(l, normalized.exc, "normalize_fields")
            ELSE Line108([l EXCEPT !.fields = normalized.val],
                         validate_fields(l.doc_type, raw_fields, today))
        Line92(l, raw_fields) ==
            Line95(l, raw_fields, normalize_fields(raw_fields))
        Line82(type) ==
            IF ~type.ok THEN Raised(Blank, type.exc, "resolve_doc_type")
            ELSE Line92([Blank EXCEPT
                           !.doc_type = type.val,
                           !.overall_confidence = DictGet(result, "confidence", JFloat(500)),
                           !.is_readable = DictGet(result, "is_readable", JBool(TRUE))],
                        DictGet(result, "fields", JDict(<<>>)))
    IN  Line82(resolve_doc_type(hint, result))

(***************************************************************************)
(* What the extraction collaborator may return, and the hints of callers.   *)
(***************************************************************************)
\* most entries a `fields` dict of the model has
MaxFields == 2

Hints == { JNull, JStr(<<>>), JStr(<<"P", "A", "N">>), JStr(<<"r", "a", "t", "i", "o", "n", "_", "c", "a", "r", "d">>) }

Absent == [t |-> "absent"]

DocTypeChoices == { Absent, JNull, JStr(<<"A", "a", "d", "h", "a", "a", "r">>), JStr(<<"r", "a", "t", "i", "o", "n", "_", "c", "a", "r", "d">>) }

ConfidenceChoices == { Absent, JFloat(200), JFloat(900) }

ReadableChoices == { Absent, JBool(FALSE) }

IssuesChoices == { Absent, JList(<<JStr(<<"g", "l", "a", "r", "e">>), JStr(<<"t", "e", "x", "t", " ", "e", "d", "i", "t", "e", "d">>)>>) }

FraudAnalysisChoices ==
    { Absent,
      JDict(<<Item("validity_score", JFloat(300)),
              Item("is_genuine_appearance", JBool(FALSE)),
              Item("reasoning", JStr(<<"f", "o", "n", "t", "s">>))>>) }

\* {"value": v, "confidence": c}
Record(v, c) == JDict(<<Item("value", v), Item("confidence", c)>>)

\* the raw entries a field name may carry: {value, confidence} records, a
\* record without confidence, one whose confidence is no number, bare scalars
FieldChoices ==
    [ name |-> { Record(JStr(<<"R", "a", "v", "i", " ", "K", "u", "m", "a", "r">>), JFloat(950)),
                 Record(JStr(<<"R">>), JFloat(200)),
                 JDict(<<Item("value", JStr(<<"R", "a", "v", "i", " ", "K", "u", "m", "a", "r">>))>>),
                 JStr(<<"R", "a", "v", "i", " ", "K", "u", "m", "a", "r">>) },
      dob |-> { Record(JStr(<<"1", "5", "-", "0", "8", "-", "1", "9", "9", "0">>), JFloat(900)),
                Record(JStr(<<"1", "5", "-", "0", "8", "-", "1", "9", "9", "0">>), JStr(<<"h", "i", "g", "h">>)),
                JStr(<<"1", "5", " ", "A", "u", "g", " ", "1", "9", "9", "0">>) },
      id_number |-> { Record(JStr(<<"1", "2", "3", "4", " ", "5", "6", "7", "8", " ", "9", "0", "1", "2">>), JFloat(900)),
                      Record(JStr(<<"1", "2", "3", "4", "5">>), JFloat(100)),
                      JInt(12345) } ]

FieldNames == DOMAIN FieldChoices

\* the `fields` dicts: up to MaxFields entries with distinct names, in any order
FieldMaps ==
    { JDict(items) : items \in
        { q \in SeqsUpTo([k : FieldNames, v : UNION { FieldChoices[n] : n \in FieldNames }],
                         MaxFields) :
            /\ \A i \in DOMAIN q : q[i].v \in FieldChoices[q[i].k]
            /\ \A i, j \in DOMAIN q : i # j => q[i].k # q[j].k } }

\* a dict of the keys whose choice is not Absent
DictOf(choice) ==
    LET RECURSIVE Keep(_)
        Keep(keys) ==
            IF keys = <<>> THEN <<>>
            ELSE IF choice[Head(keys)] = Absent THEN Keep(Tail(keys))
            ELSE <<Item(Head(keys), choice[Head(keys)])>> \o Keep(Tail(keys))
    IN  JDict(Keep(<<"document_type", "confidence", "is_readable", "fields",
                     "issues", "fraud_analysis">>))

ExtractionResults ==
    { DictOf([document_type |-> t, confidence |-> c, is_readable |-> r, fields |-> f,
              issues |-> i, fraud_analysis |-> a]) :
        t \in DocTypeChoices, c \in ConfidenceChoices, r \in ReadableChoices,
        f \in FieldMaps \cup {Absent}, i \in IssuesChoices, a \in FraudAnalysisChoices }

(***************************************************************************)
(* SpecPipeline: one invocation of run_verification_pipeline.               *)
(***************************************************************************)
InitPipeline ==
    /\ pc = "start"
    /\ document_type_hint \in Hints
    /\ extraction_result = NoValue
    /\ doc_type = Blank.doc_type
    /\ overall_confidence = Blank.overall_confidence
    /\ is_readable = Blank.is_readable
    /\ fields = Blank.fields
    /\ validation_errors = Blank.validation_errors
    /\ fraud_signals = Blank.fraud_signals
    /\ recommendation = Blank.recommendation
    /\ explanation = Blank.explanation
    /\ exception = Blank.exception
    /\ extract_calls = 0
    /\ now \in Clock
    /\ NothingBeyond

\* what extract_fields raises: the httpx timeout or transport error of the
\* request (extractor.py:99-130), the status or "error" check (lines 132-140),
\* a response without choices (line 142), a reply that is not JSON (line 152)
ExtractionFailures ==
    {"TimeoutException", "ConnectError", "Exception", "KeyError", "JSONDecodeError"}

\* line 80: the call of extract_fields, awaited
CallExtract ==
    /\ pc = "start"
    /\ pc' = "extracting"
    /\ extract_calls' = extract_calls + 1
    /\ UNCHANGED <<document_type_hint, extraction_result, doc_type, overall_confidence,
                   is_readable, fields, validation_errors, fraud_signals, recommendation,
                   explanation, exception, now>>
    /\ UNCHANGED beyond_invocation

\* a pipeline that catches the failure and calls extract_fields again
ExtractFails_retrying ==
    /\ pc = "extracting"
    /\ pc' = "start"
    /\ \E cause \in ExtractionFailures :
         exception' = [exc |-> cause, in |-> "extract_fields"]
    /\ UNCHANGED <<document_type_hint, extraction_result, doc_type, overall_confidence,
                   is_readable, fields, validation_errors, fraud_signals, recommendation,
                   explanation, extract_calls, now>>
    /\ UNCHANGED beyond_invocation

\* extract_fields raises: nothing catches it (line 80 is in no try block),
\* so the exception leaves run_verification_pipeline
ExtractFails ==
    /\ pc = "extracting"
    /\ pc' = "raised"
    /\ \E cause \in ExtractionFailures :
         exception' = [exc |-> cause, in |-> "extract_fields"]
    /\ UNCHANGED <<document_type_hint, extraction_result, doc_type, overall_confidence,
                   is_readable, fields, validation_errors, fraud_signals, recommendation,
                   explanation, extract_calls, now>>
    /\ UNCHANGED beyond_invocation

\* extract_fields returns: lines 82-130 run to the return or to a raise
ExtractReturns ==
    /\ pc = "extracting"
    /\ \E result \in ExtractionResults :
         \E l \in {run_after_extract(document_type_hint, result, now)} :
             /\ extraction_result' = result
             /\ doc_type' = l.doc_type
             /\ overall_confidence' = l.overall_confidence
             /\ is_readable' = l.is_readable
             /\ fields' = l.fields
             /\ validation_errors' = l.validation_errors
             /\ fraud_signals' = l.fraud_signals
             /\ recommendation' = l.recommendation
             /\ explanation' = l.explanation
             /\ exception' = l.exception
             /\ pc' = IF l.exception = NoValue THEN "returned" ELSE "raised"
    /\ UNCHANGED <<document_type_hint, extract_calls, now>>
    /\ UNCHANGED beyond_invocation

NextPipeline == CallExtract \/ ExtractFails \/ ExtractReturns

SpecPipeline == InitPipeline /\ [][NextPipeline]_vars

(***************************************************************************)
(* SpecFraud: detect_fraud_signals applied to extraction results.           *)
(***************************************************************************)
\* a name of more than 20 characters, in Devanagari and in Latin letters
MixedName ==
    <<"U+0930", "U+093E", "U+092E", " ", "R", "a", "m", "e", "s", "h", "w", "a", "r",
      " ", "P", "r", "a", "s", "a", "d", " ", "K">>

BlurryScan == <<"b", "l", "u", "r", "r", "y", " ", "s", "c", "a", "n">>

\* the overall confidence: missing, low, at the threshold, high, or a word
\* instead of a number
FraudConfidenceChoices ==
    { Absent, JFloat(200), JFloat(500), JFloat(900), JStr(<<"h", "i", "g", "h">>) }

FraudFieldsChoices ==
    { Absent,
      JDict(<<Item("name", Record(JStr(MixedName), JFloat(900))),
              Item("dob", Record(JStr(<<"1", "5", "-", "0", "8", "-", "1", "9", "9", "0">>),
                                 JFloat(100)))>>),
      JDict(<<Item("name", Record(JStr(<<"R">>), JFloat(200)))>>),
      \* a field just below and one at the threshold, a bare scalar, and a
      \* record without a confidence
      JDict(<<Item("name", Record(JStr(<<"R">>), JFloat(290))),
              Item("dob", Record(JStr(<<"1", "5", "-", "0", "8", "-", "1", "9", "9", "0">>),
                                 JFloat(300))),
              Item("address", JStr(<<"P", "u", "n", "e">>)),
              Item("id_number", JDict(<<Item("value", JStr(<<"7">>))>>))>>) }

FraudIssuesChoices ==
    { Absent,
      JList(<<JStr(BlurryScan)>>),
      JList(<<JStr(<<"T", "e", "x", "t", " ", "E", "d", "i", "t", "e", "d">>),
              JStr(<<"g", "l", "a", "r", "e">>),
              JInt(7)>>),
      \* both kinds of keyword in one issue, then a quality keyword alone
      JList(<<JStr(<<"B", "l", "u", "r", "r", "y", ",", " ",
                     "T", "A", "M", "P", "E", "R", "E", "D">>),
              JStr(<<"l", "o", "w", " ", "Q", "u", "a", "l", "i", "t", "y">>)>>) }

ForensicChoices ==
    { Absent,
      JDict(<<Item("validity_score", JFloat(300)),
              Item("is_genuine_appearance", JBool(FALSE))>>),
      JDict(<<Item("validity_score", JFloat(500)),
              Item("reasoning", JStr(<<"f", "o", "n", "t", "s">>)),
              Item("suspicious_elements", JList(<<JStr(<<"f", "o", "n", "t">>)>>)),
              Item("alterations_detected", JList(<<JStr(<<"s", "e", "a", "l">>)>>))>>),
      JDict(<<Item("suspicious_elements", JInt(5))>>),
      \* a score on the lower threshold, with every kind of finding
      JDict(<<Item("validity_score", JFloat(400)),
              Item("is_genuine_appearance", JBool(FALSE)),
              Item("suspicious_elements",
                   JList(<<JStr(<<"f", "o", "n", "t">>), JStr(<<"i", "n", "k">>)>>)),
              Item("alterations_detected", JList(<<JStr(<<"s", "e", "a", "l">>)>>)),
              Item("security_features_found",
                   JList(<<JStr(<<"h", "o", "l", "o", "g", "r", "a", "m">>)>>))>>),
      \* a score on the upper threshold, and nothing found but security features
      JDict(<<Item("validity_score", JFloat(600)),
              Item("is_genuine_appearance", JBool(TRUE)),
              Item("security_features_found",
                   JList(<<JStr(<<"h", "o", "l", "o", "g", "r", "a", "m">>)>>))>>),
      JDict(<<>>) }

FraudInputs ==
    { DictOf([document_type |-> Absent, confidence |-> c, is_readable |-> Absent,
              fields |-> f, issues |-> i, fraud_analysis |-> a]) :
        c \in FraudConfidenceChoices, f \in FraudFieldsChoices,
        i \in FraudIssuesChoices, a \in ForensicChoices }

InitFraud ==
    /\ pc = "detect"
    /\ extraction_result \in FraudInputs
    /\ document_type_hint = NoValue
    /\ doc_type = Blank.doc_type
    /\ overall_confidence = Blank.overall_confidence
    /\ is_readable = Blank.is_readable
    /\ fields = Blank.fields
    /\ validation_errors = Blank.validation_errors
    /\ fraud_signals = Blank.fraud_signals
    /\ recommendation = Blank.recommendation
    /\ explanation = Blank.explanation
    /\ exception = Blank.exception
    /\ extract_calls = 0
    /\ now \in Clock
    /\ NothingBeyond

\* detect_fraud_signals(extraction_result) returns its list or raises
Detect ==
    /\ pc = "detect"
    /\ \E signals \in {detect_fraud_signals(extraction_result)} :
         IF signals.ok
         THEN /\ fraud_signals' = signals.val
              /\ exception' = exception
              /\ pc' = "detected"
         ELSE /\ fraud_signals' = fraud_signals
              /\ exception' = [exc |-> signals.exc, in |-> "detect_fraud_signals"]
              /\ pc' = "raised"
    /\ UNCHANGED <<document_type_hint, extraction_result, doc_type, overall_confidence,
                   is_readable, fields, validation_errors, recommendation, explanation,
                   extract_calls, now>>
    /\ UNCHANGED beyond_invocation

NextFraud == Detect

SpecFraud == InitFraud /\ [][NextFraud]_vars

(***************************************************************************)
(* SpecValidate: validate_fields applied to document types and field maps.  *)
(***************************************************************************)
\* a {value, confidence} record of a string written in one piece per character
Entry(text) == Record(JStr(text), JFloat(900))

\* name: missing, well-formed, one character that is a digit (both name
\* errors), a bare string
ValidateNameChoices ==
    { Absent,
      Entry(<<"R", "a", "v", "i", " ", "K", "u", "m", "a", "r">>),
      Entry(<<"4">>),
      JStr(<<"R", "a", "v", "i", " ", "K", "u", "m", "a", "r">>) }

\* dob: missing, a past date, no date of the calendar, a date after every
\* date of Clock, a date before 1900, a date between the dates of Clock
ValidateDobChoices ==
    { Absent,
      Entry(<<"1", "5", "-", "0", "8", "-", "1", "9", "9", "0">>),
      Entry(<<"3", "1", "-", "0", "2", "-", "2", "0", "2", "0">>),
      Entry(<<"0", "1", "/", "0", "1", "/", "2", "0", "3", "0">>),
      Entry(<<"1", " ", "J", "a", "n", "u", "a", "r", "y", " ", "1", "8", "9", "0">>),
      Entry(<<"2", "0", "2", "6", "-", "1", "1", "-", "0", "4">>),
      \* an empty string, and a date the last two formats both parse
      Entry(<<>>),
      Entry(<<"1", " ", "M", "a", "y", " ", "2", "0", "2", "0">>) }

\* id_number: missing, Aadhaar-like, PAN-like and voter-ID-like strings that
\* do and do not meet their formats, a number instead of a string
ValidateIdChoices ==
    { Absent,
      Entry(<<"1", "2", "3", "4", " ", "5", "6", "7", "8", " ", "9", "0", "1", "2">>),
      Entry(<<"1", "2", "\t", "3", "4", "5", "6", "7", "8", "9", "0", "1", "2", "\n">>),
      Entry(<<"1", "2", "3", "4", "5">>),
      Entry(<<"1", "2", "3", "4", "5", "6", "7", "8", "9", "0", "1", "a">>),
      Entry(<<"1", "2", "3", "4", "5", "6", "7", "8", "9", "0", "1", "2", "3">>),
      Entry(<<"a", "b", "c", "d", "e", "1", "2", "3", "4", "f">>),
      Entry(<<" ", "A", "b", "C", "d", "E", "1", "2", "3", "4", "F", " ", "\n">>),
      Entry(<<"A", "B", "C", "D", "E", "1", "2", "3", "F">>),
      Entry(<<"A", "B", "C", "D", "E", "1", "2", "3", "4", "5">>),
      Entry(<<"A", "B", " ", "C", "D", "E", "1", "2", "3", "4", "F">>),
      Entry(<<"a", "b", "c", "1", "2", "3", "4", "5", "6", "7">>),
      Record(JInt(12345), JFloat(900)) }

\* the items of a dict with the keys whose choice is not Absent
Present(items) == SelectSeq(items, LAMBDA item : item.v # Absent)

ValidateMaps ==
    { JDict(Present(<<Item("name", n), Item("dob", d), Item("id_number", i)>>)) :
        n \in ValidateNameChoices, d \in ValidateDobChoices, i \in ValidateIdChoices }

InitValidate ==
    /\ pc = "validate"
    /\ doc_type \in DocumentTypes
    /\ extraction_result \in { JDict(<<Item("fields", m)>>) : m \in ValidateMaps }
    /\ document_type_hint = NoValue
    /\ overall_confidence = Blank.overall_confidence
    /\ is_readable = Blank.is_readable
    /\ fields = Blank.fields
    /\ validation_errors = Blank.validation_errors
    /\ fraud_signals = Blank.fraud_signals
    /\ recommendation = Blank.recommendation
    /\ explanation = Blank.explanation
    /\ exception = Blank.exception
    /\ extract_calls = 0
    /\ now \in Clock
    /\ NothingBeyond

\* validate_fields(doc_type, raw_fields) returns its list or raises
Validate ==
    /\ pc = "validate"
    /\ \E errors \in {validate_fields(doc_type,
                                      DictGet(extraction_result, "fields", JDict(<<>>)),
                                      now)} :
         IF errors.ok
         THEN /\ validation_errors' = errors.val
              /\ exception' = exception
              /\ pc' = "validated"
         ELSE /\ validation_errors' = validation_errors
              /\ exception' = [exc |-> errors.exc, in |-> "validate_fields"]
              /\ pc' = "raised"
    /\ UNCHANGED <<document_type_hint, extraction_result, doc_type, overall_confidence,
                   is_readable, fields, fraud_signals, recommendation, explanation,
                   extract_calls, now>>
    /\ UNCHANGED beyond_invocation

NextValidate == Validate

SpecValidate == InitValidate /\ [][NextValidate]_vars

(***************************************************************************)
(* SpecRepeat: determine_recommendation, validate_fields and               *)
(* detect_fraud_signals called again and again, at the dates of the clock.  *)
(***************************************************************************)
\* no pipeline invocation is followed
NoInvocation ==
    /\ pc = "none"
    /\ document_type_hint = NoValue
    /\ extraction_result = NoValue
    /\ doc_type = Blank.doc_type
    /\ overall_confidence = Blank.overall_confidence
    /\ is_readable = Blank.is_readable
    /\ fields = Blank.fields
    /\ validation_errors = Blank.validation_errors
    /\ fraud_signals = Blank.fraud_signals
    /\ recommendation = Blank.recommendation
    /\ explanation = Blank.explanation
    /\ exception = Blank.exception
    /\ extract_calls = 0

\* argument tuples of determine_recommendation
DecideArguments ==
    { <<ErrorList(n), signals, JFloat(c), JBool(TRUE)>> :
        n \in {0, 3}, signals \in SeqsUpTo(SampleSignals, 0), c \in {700, 900} }

\* argument tuples of validate_fields
RepeatValidateArguments ==
    { <<type, JDict(Present(<<Item("name", Entry(<<"R", "a", "v", "i">>)),
                              Item("dob", d)>>))>> :
        type \in {"aadhaar", "passport"},
        d \in { Absent,
                Entry(<<"1", "5", "-", "0", "8", "-", "1", "9", "9", "0">>),
                Entry(<<"2", "0", "2", "6", "-", "1", "1", "-", "0", "4">>) } }

\* argument tuples of detect_fraud_signals
DetectArguments ==
    { <<result>> :
        result \in { r \in FraudInputs :
                       /\ ~HasKey(r, "fields")
                       /\ ~HasKey(r, "fraud_analysis")
                       /\ DictGet(r, "issues", JNull) = JList(<<JStr(BlurryScan)>>) } }

\* one entry of the history: the function, its arguments, the date of the
\* call and what it returned or raised
Called(fn, args, at, out) == [fn |-> fn, args |-> args, at |-> at, out |-> out]

CallDecide ==
    /\ Len(history) < MaxCalls
    /\ \E a \in DecideArguments :
         history' = Append(history,
                           Called("determine_recommendation", a, now,
                                  Ok(determine_recommendation(a[1], a[2], a[3], a[4]))))
    /\ UNCHANGED <<invocation, now, invocations, arguments, response, database>>

CallValidate ==
    /\ Len(history) < MaxCalls
    /\ \E a \in RepeatValidateArguments :
         history' = Append(history,
                           Called("validate_fields", a, now, validate_fields(a[1], a[2], now)))
    /\ UNCHANGED <<invocation, now, invocations, arguments, response, database>>

CallDetect ==
    /\ Len(history) < MaxCalls
    /\ \E a \in DetectArguments :
         history' = Append(history,
                           Called("detect_fraud_signals", a, now, detect_fraud_signals(a[1])))
    /\ UNCHANGED <<invocation, now, invocations, arguments, response, database>>

\* time passes: datetime.now() reports a later date
ClockAdvances ==
    /\ \E later \in Clock : DateAfter(later, now) /\ now' = later
    /\ UNCHANGED <<invocation, history, invocations, arguments, response, database>>

InitRepeat ==
    /\ NoInvocation
    /\ now \in Clock
    /\ NothingBeyond

NextRepeat == CallDecide \/ CallValidate \/ CallDetect \/ ClockAdvances

SpecRepeat == InitRepeat /\ [][NextRepeat]_vars

(***************************************************************************)
(* SpecEvidence: determine_recommendation applied to an input and then to  *)
(* the same input with more evidence against the document.  `history`      *)
(* keeps the call that the second one replaces.                            *)
(***************************************************************************)
\* one signal of each severity
EvidenceSignals ==
    { s \in SampleSignals : s.type \in {"VLM_DETECTED_ISSUE", "SUSPICIOUS_ELEMENT",
                                        "VISUAL_ANOMALY"} }

\* confidences on both sides of the thresholds 0.6 and 0.8
EvidenceConfidences == {599, 600, 799, 800, 1000}

InitEvidence ==
    /\ pc = "decide"
    /\ validation_errors \in { ErrorList(n) : n \in 0..MaxErrors }
    /\ fraud_signals \in SeqsUpTo(EvidenceSignals, MaxSignals)
    /\ overall_confidence \in { JFloat(c) : c \in EvidenceConfidences }
    /\ is_readable \in { JBool(b) : b \in BOOLEAN }
    /\ recommendation = "" /\ explanation = <<>>
    /\ document_type_hint = NoValue /\ extraction_result = NoValue
    /\ doc_type = "" /\ fields = <<>> /\ exception = NoValue
    /\ extract_calls = 0
    /\ now \in Clock
    /\ NothingBeyond

\* the decision is taken again on the given arguments
DecideAgain(errors, signals, confidence, readable) ==
    /\ pc = "decided"
    /\ history = <<>>
    /\ history' = << Called("determine_recommendation",
                            <<validation_errors, fraud_signals, overall_confidence,
                              is_readable>>,
                            now, Ok(<<recommendation, explanation>>)) >>
    /\ validation_errors' = errors
    /\ fraud_signals' = signals
    /\ overall_confidence' = confidence
    /\ is_readable' = readable
    /\ LET r == determine_recommendation(errors, signals, confidence, readable)
       IN  recommendation' = r[1] /\ explanation' = r[2]
    /\ UNCHANGED <<pc, document_type_hint, extraction_result, doc_type, fields, exception,
                   extract_calls, now, invocations, arguments, response, database>>

AnotherError ==
    /\ Len(validation_errors) < MaxErrors
    /\ DecideAgain(ErrorList(Len(validation_errors) + 1), fraud_signals,
                   overall_confidence, is_readable)

AnotherSignal ==
    /\ Len(fraud_signals) < MaxSignals
    /\ \E s \in EvidenceSignals :
         DecideAgain(validation_errors, Append(fraud_signals, s),
                     overall_confidence, is_readable)

LowerConfidence ==
    \E c \in EvidenceConfidences :
        /\ pc = "decided"
        /\ c < NumValue(overall_confidence)
        /\ DecideAgain(validation_errors, fraud_signals, JFloat(c), is_readable)

BecomesUnreadable ==
    /\ pc = "decided"
    /\ Truthy(is_readable)
    /\ DecideAgain(validation_errors, fraud_signals, overall_confidence, JBool(FALSE))

NextEvidence ==
    Decide \/ AnotherError \/ AnotherSignal \/ LowerConfidence \/ BecomesUnreadable

SpecEvidence == InitEvidence /\ [][NextEvidence]_vars

(***************************************************************************)
(* SpecConcurrent: NumInvocations coroutines of run_verification_pipeline   *)
(* on one event loop.  Each has its own arguments and locals; the only      *)
(* suspension point is the await of line 80, so lines 82-130 of one         *)
(* invocation run without any step of another in between.                   *)
(***************************************************************************)
ConcurrentHints == { JNull, JStr(<<"P", "A", "N">>) }

\* what extract_fields may return to an invocation: a readable Aadhaar
\* card, a result of low confidence, a result whose name is a bare string
ConcurrentResults ==
    { JDict(<<Item("document_type", JStr(<<"a", "a", "d", "h", "a", "a", "r">>)),
              Item("confidence", JFloat(900)),
              Item("fields",
                   JDict(<<Item("name", Entry(<<"R", "a", "v", "i">>)),
                           Item("dob", Entry(<<"2", "0", "2", "6", "-", "1", "1", "-", "0", "4">>)),
                           Item("id_number",
                                Entry(<<"1", "2", "3", "4", " ", "5", "6", "7", "8", " ",
                                        "9", "0", "1", "2">>))>>))>>),
      JDict(<<Item("confidence", JFloat(200))>>),
      JDict(<<Item("fields", JDict(<<Item("name", JStr(<<"R", "a", "v", "i">>))>>))>>) }

\* the frame of one invocation: its position, its argument, what
\* extract_fields returned to it and when, and its locals
Frame(at_pc, hint, result, at, locals) ==
    [pc |-> at_pc, document_type_hint |-> hint, extraction_result |-> result,
     at |-> at, locals |-> locals]

\* a step of invocation i writes its own frame; a variant with one frame
\* for the whole module comes first
Store_shared(frames, i, frame) == [j \in DOMAIN frames |-> frame]

Store(frames, i, frame) == [frames EXCEPT ![i] = frame]

\* where an invocation stands once lines 82-130 have run
Finished(locals) == IF locals.exception = NoValue THEN "returned" ELSE "raised"

InitConcurrent ==
    /\ NoInvocation
    /\ now \in Clock
    /\ history = <<>>
    /\ arguments = NoValue
    /\ response = NoValue
    /\ verification_requests = <<>>
    /\ audit_logs = <<>>
    /\ invocations \in [1..NumInvocations ->
                          { Frame("start", h, NoValue, NoValue, Blank) : h \in ConcurrentHints }]

\* line 80: invocation i calls extract_fields and is suspended
ConcurrentCall(i) ==
    /\ invocations[i].pc = "start"
    /\ invocations' = Store(invocations, i, [invocations[i] EXCEPT !.pc = "extracting"])
    /\ UNCHANGED <<invocation, now, history, arguments, response, database>>

\* the awaited call of invocation i raises
ConcurrentFails(i) ==
    /\ invocations[i].pc = "extracting"
    /\ \E cause \in ExtractionFailures :
         invocations' = Store(invocations, i,
                              [invocations[i] EXCEPT
                                 !.pc = "raised",
                                 !.locals = Raised(Blank, cause, "extract_fields")])
    /\ UNCHANGED <<invocation, now, history, arguments, response, database>>

\* the task of invocation i is cancelled: CancelledError is raised at the await
ConcurrentCancelled(i) ==
    /\ invocations[i].pc = "extracting"
    /\ invocations' = Store(invocations, i,
                            [invocations[i] EXCEPT
                               !.pc = "cancelled",
                               !.locals = Raised(Blank, "CancelledError", "extract_fields")])
    /\ UNCHANGED <<invocation, now, history, arguments, response, database>>

\* the awaited call of invocation i returns: lines 82-130 run
ConcurrentReturns(i) ==
    /\ invocations[i].pc = "extracting"
    /\ \E result \in ConcurrentResults :
         \E l \in {run_after_extract(invocations[i].document_type_hint, result, now)} :
             invocations' = Store(invocations, i,
                                  Frame(Finished(l), invocations[i].document_type_hint,
                                        result, now, l))
    /\ UNCHANGED <<invocation, now, history, arguments, response, database>>

NextConcurrent ==
    \/ \E i \in 1..NumInvocations : ConcurrentCall(i)
    \/ \E i \in 1..NumInvocations : ConcurrentFails(i)
    \/ \E i \in 1..NumInvocations : ConcurrentCancelled(i)
    \/ \E i \in 1..NumInvocations : ConcurrentReturns(i)
    \/ ClockAdvances

SpecConcurrent == InitConcurrent /\ [][NextConcurrent]_vars

(***************************************************************************)
(* mcp_server.py: the tool validate_id_number.  A response is the object    *)
(* handed to json.dumps; str(e) of an exception is its class name.          *)
(***************************************************************************)
\* the keys of type_mapping, the ID types the tool supports
type_mapping == {"aadhaar", "pan", "voter_id"}

handle_validate_id_number(args, today) ==
    LET Reply(id_type, id_number, errors) ==
            IF ~errors.ok THEN [valid |-> FALSE, error |-> errors.exc]
            ELSE [valid |-> Len(errors.val) = 0, id_type |-> id_type,
                  id_number |-> id_number, errors |-> errors.val]
        Mapped(id_type, id_number) ==
            IF \A m \in type_mapping : DocumentTypeValue[m] # id_type
            THEN [valid |-> FALSE, errors |-> << <<"Unsupported ID type: ">> \o id_type >>]
            ELSE Reply(id_type, id_number,
                       validate_fields(DocumentType(id_type).val,
                                       JDict(<<Item("id_number",
                                                    Record(id_number, JFloat(1000)))>>),
                                       today))
        Lowered(id_type, id_number) ==
            IF id_type.t # "str" THEN [valid |-> FALSE, error |-> "AttributeError"]
            ELSE Mapped(Lower(id_type.s), id_number)
    IN  Lowered(DictGet(args, "id_type", JStr(<<>>)), DictGet(args, "id_number", JStr(<<>>)))

(***************************************************************************)
(* SpecMcp: one call of the tool validate_id_number.                        *)
(***************************************************************************)
IdTypeChoices ==
    { Absent, JInt(1),
      JStr(<<"a", "a", "d", "h", "a", "a", "r">>),
      JStr(<<"P", "A", "N">>),
      JStr(<<"v", "o", "t", "e", "r", "_", "i", "d">>),
      JStr(<<"p", "a", "s", "s", "p", "o", "r", "t">>) }

IdNumberChoices ==
    { Absent, JInt(12345),
      JStr(<<"1", "2", "3", "4", "5", "6", "7", "8", "9", "0", "1", "2">>),
      JStr(<<"1", "2", "3", "4", " ", "5", "6", "7", "8", " ", "9", "0", "1", "2">>),
      JStr(<<"1", "2", "3", "4", "5">>),
      JStr(<<"A", "B", "C", "D", "E", "1", "2", "3", "4", "F">>),
      JStr(<<"a", "b", "c", "d", "e", "1", "2", "3", "4", "f">>),
      JStr(<<"A", "B", "C", "D", "E", "1", "2", "3", "F">>),
      JStr(<<"A", "B", "C", "1", "2", "3", "4", "5", "6", "7">>) }

McpArguments ==
    { JDict(Present(<<Item("id_type", t), Item("id_number", n)>>)) :
        t \in IdTypeChoices, n \in IdNumberChoices }

InitMcp ==
    /\ NoInvocation
    /\ now \in Clock
    /\ history = <<>>
    /\ invocations = <<>>
    /\ arguments \in McpArguments
    /\ response = NoValue
    /\ verification_requests = <<>>
    /\ audit_logs = <<>>

\* call_tool("validate_id_number", arguments)
HandleValidateIdNumber ==
    /\ response = NoValue
    /\ response' = handle_validate_id_number(arguments, now)
    /\ UNCHANGED <<invocation, now, history, invocations, arguments, database>>

NextMcp == HandleValidateIdNumber

SpecMcp == InitMcp /\ [][NextMcp]_vars

(***************************************************************************)
(* api/v1/endpoints/verify.py: the endpoints /verify/process and            *)
(* /verify/decision over the tables verification_requests and audit_logs.   *)
(* A row of verification_requests is a record of its columns; the value of *)
(* a column an insert does not write is the column's default.  A response  *)
(* is the HTTP status with the body or the exception behind it.  One       *)
(* upload is followed from its arrival; decisions are submitted at any     *)
(* time, each in one step, since submit_decision awaits nothing.           *)
(***************************************************************************)
\* line 28
allowed_types == {"image/jpeg", "image/png", "image/jpg"}

ContentTypes == allowed_types \cup {"application/pdf"}

\* what the pipeline may get back from extract_fields while an upload waits
ProcessResults == ConcurrentResults

\* the defaults the column raw_response may have in the database, whose
\* schema is not part of the source: NULL or an empty JSON object
RawResponseDefaults == { JNull, JDict(<<>>) }

Row(id, row_status, document_type, raw_response, fraud_flag) ==
    [id |-> id, status |-> row_status, document_type |-> document_type,
     raw_response |-> raw_response, fraud_flag |-> fraud_flag]

\* .update(changes).eq("id", id).execute(): `changes` maps column names to
\* the new values of the rows with that id
UpdateRows(rows, id, changes) ==
    [i \in DOMAIN rows |->
       IF rows[i].id = id
       THEN [c \in DOMAIN rows[i] |->
               IF c \in DOMAIN changes THEN changes[c] ELSE rows[i][c]]
       ELSE rows[i]]

\* result.model_dump() as the JSON object stored in raw_response
model_dump(request_id, l) ==
    JDict(<<Item("request_id", JInt(request_id)),
            Item("document_type", JStr(<<l.doc_type>>)),
            Item("confidence_score", l.overall_confidence),
            Item("fields",
                 JDict([i \in DOMAIN l.fields |->
                          Item(l.fields[i].k,
                               JDict(<<Item("value", JStr(l.fields[i].v.value)),
                                       Item("confidence",
                                            JFloat(l.fields[i].v.confidence))>>))])),
            Item("validation_errors",
                 JList([i \in DOMAIN l.validation_errors |-> JStr(l.validation_errors[i])])),
            Item("fraud_signals",
                 JList([i \in DOMAIN l.fraud_signals |->
                          JDict(<<Item("type", JStr(<<l.fraud_signals[i].type>>)),
                                  Item("description", JStr(l.fraud_signals[i].description)),
                                  Item("severity",
                                       JStr(<<l.fraud_signals[i].severity>>))>>)])),
            Item("recommendation", JStr(<<l.recommendation>>)),
            Item("explanation", JStr(l.explanation))>>)

\* the id of the request the upload created: the latest row.  (uuid4 gives
\* an id no other row has; here it is the number of the row.)
request_id == Len(verification_requests)

\* longest sequence of decisions submitted in one behaviour
MaxDecisions == 2

InitEndpoints ==
    /\ pc = "received"
    /\ arguments \in [content_type : ContentTypes, document_type_hint : Hints]
    /\ response = NoValue
    /\ verification_requests = <<>>
    /\ audit_logs = <<>>
    /\ history = <<>>
    /\ invocations = <<>>
    /\ document_type_hint = NoValue
    /\ extraction_result = NoValue
    /\ doc_type = Blank.doc_type
    /\ overall_confidence = Blank.overall_confidence
    /\ is_readable = Blank.is_readable
    /\ fields = Blank.fields
    /\ validation_errors = Blank.validation_errors
    /\ fraud_signals = Blank.fraud_signals
    /\ recommendation = Blank.recommendation
    /\ explanation = Blank.explanation
    /\ exception = Blank.exception
    /\ extract_calls = 0
    /\ now \in Clock

\* what no step of process_document changes
process_frame ==
    <<document_type_hint, extraction_result, doc_type, overall_confidence, is_readable,
      fields, validation_errors, fraud_signals, recommendation, explanation, exception,
      extract_calls, now, history, invocations, arguments, audit_logs>>

\* lines 28-33: a content type that is not allowed is answered with HTTP 400
RejectUpload ==
    /\ pc = "received"
    /\ arguments.content_type \notin allowed_types
    /\ response' = [status_code |-> 400, exc |-> "HTTPException"]
    /\ pc' = "responded"
    /\ UNCHANGED <<process_frame, verification_requests>>

\* lines 36-51: the row is inserted with status PROCESSING and the pipeline
\* is called and awaited
InsertRecord ==
    /\ pc = "received"
    /\ arguments.content_type \in allowed_types
    /\ \E default \in RawResponseDefaults :
         verification_requests'
           = Append(verification_requests,
                    Row(Len(verification_requests) + 1, "PROCESSING", JNull, default, JNull))
    /\ pc' = "awaiting"
    /\ UNCHANGED <<process_frame, response>>

\* lines 70-80: the row is marked FAILED and HTTP 500 is raised
MarkFailed(exc) ==
    /\ verification_requests'
         = UpdateRows(verification_requests, request_id,
                      [status |-> "FAILED",
                       raw_response |-> JDict(<<Item("error", JStr(<<exc>>))>>)])
    /\ response' = [status_code |-> 500, exc |-> "HTTPException"]
    /\ pc' = "responded"

\* lines 58-68: the row is marked COMPLETED and the result is returned
MarkCompleted(l) ==
    /\ verification_requests'
         = UpdateRows(verification_requests, request_id,
                      [status |-> "COMPLETED",
                       document_type |-> JStr(<<l.doc_type>>),
                       raw_response |-> model_dump(request_id, l),
                       fraud_flag |-> JBool(Len(l.fraud_signals) > 0)])
    /\ response' = [status_code |-> 200, body |-> l]
    /\ pc' = "responded"

\* the awaited pipeline ends after extract_fields returned: with a result,
\* or with the exception one of its lines 82-130 raised
PipelineEnds ==
    /\ pc = "awaiting"
    /\ \E result \in ProcessResults :
         \E l \in {run_after_extract(arguments.document_type_hint, result, now)} :
             IF l.exception = NoValue THEN MarkCompleted(l) ELSE MarkFailed(l.exception.exc)
    /\ UNCHANGED process_frame

\* the awaited pipeline raises what extract_fields raised
PipelineFails ==
    /\ pc = "awaiting"
    /\ \E cause \in ExtractionFailures : MarkFailed(cause)
    /\ UNCHANGED process_frame

\* the task of the request is cancelled at the await of line 51:
\* CancelledError is no Exception, so line 70 does not catch it and the
\* handler is left with nothing more done
TaskCancelled ==
    /\ pc = "awaiting"
    /\ pc' = "cancelled"
    /\ UNCHANGED <<process_frame, response, verification_requests>>

Decision == {"APPROVE", "REJECT", "REVIEW"}

\* DecisionRequest objects: for the id of the upload's row or for an id no
\* row has, with and without a reason
DecisionRequests ==
    [request_id : {1, 2}, final_decision : Decision,
     override_reason : { JNull, JStr(<<"c", "l", "e", "a", "r">>) }]

\* how .single().execute() answers when no row matches, which the client
\* library decides: a response without data, or an APIError
SingleOnNoRow == {"no data", "APIError"}

\* lines 92-118: the response and the rows appended to audit_logs
submit_decision(rows, decision, on_no_row) ==
    LET Log(original_recommendation) ==
            [response |-> [status_code |-> 200, success |-> TRUE],
             entries |->
               << [request_id |-> decision.request_id,
                   officer_id |-> "officer",
                   officer_decision |-> decision.final_decision,
                   was_overridden |->
                       original_recommendation # JStr(<<decision.final_decision>>),
                   override_reason |->
                       IF original_recommendation # JStr(<<decision.final_decision>>)
                       THEN decision.override_reason ELSE JNull] >>]
        Unhandled(exc) ==
            [response |-> [status_code |-> 500, exc |-> exc], entries |-> <<>>]
        Found(data) ==
            IF data = <<>>
            THEN IF on_no_row = "no data"
                 THEN [response |-> [status_code |-> 404, exc |-> "HTTPException"],
                       entries |-> <<>>]
                 ELSE Unhandled("APIError")
            ELSE IF data[1].raw_response.t # "dict" THEN Unhandled("AttributeError")
            ELSE Log(DictGet(data[1].raw_response, "recommendation",
                             JStr(<<"REVIEW">>)))
    IN  Found(SelectSeq(rows, LAMBDA row : row.id = decision.request_id))

\* POST /verify/decision, handled in one step
SubmitDecision ==
    /\ Len(history) < MaxDecisions
    /\ \E decision \in DecisionRequests, on_no_row \in SingleOnNoRow :
         \E out \in {submit_decision(verification_requests, decision, on_no_row)} :
             /\ audit_logs' = audit_logs \o out.entries
             /\ history' = Append(history,
                                  Called("submit_decision", decision, now, out.response))
    /\ UNCHANGED <<invocation, now, invocations, arguments, response, verification_requests>>

\* the steps of the upload
NextProcess ==
    RejectUpload \/ InsertRecord \/ PipelineEnds \/ PipelineFails \/ TaskCancelled

\* one upload alone; the event loop runs a handler that can take a step
SpecProcess == InitEndpoints /\ [][NextProcess]_vars /\ WF_vars(NextProcess)

NextEndpoints == NextProcess \/ SubmitDecision

\* one upload, with decisions submitted before, during and after it
SpecEndpoints == InitEndpoints /\ [][NextEndpoints]_vars

(***************************************************************************)
(* Properties of determine_recommendation (checked under SpecDecide).       *)
(***************************************************************************)
Decided == pc = "decided"

\* the arguments as a truth value and a number of thousandths
Readable == Truthy(is_readable)

Confidence == NumValue(overall_confidence)

HasHigh(signals) == \E i \in DOMAIN signals : signals[i].severity = "HIGH"

\* the first HIGH signal in list order
FirstHigh(signals) ==
    signals[CHOOSE i \in DOMAIN signals :
                /\ signals[i].severity = "HIGH"
                /\ \A j \in 1..(i - 1) : signals[j].severity # "HIGH"]

\* C1: for every combination of validation errors, fraud signals, overall
\* confidence and readability flag, determine_recommendation returns APPROVE
\* or REVIEW, never REJECT, together with a non-empty explanation.
C1_NeverReject ==
    Decided => /\ recommendation \in {"APPROVE", "REVIEW"}
               /\ explanation # <<>>
               /\ \A i \in DOMAIN explanation : explanation[i] # ""

C1_Witness ==
    /\ Decided
    /\ HasHigh(fraud_signals) /\ Readable
    /\ Len(validation_errors) = MaxErrors
    /\ recommendation = "REVIEW"

\* C2: whenever is_readable is false, the result is REVIEW with the "not
\* readable or too low quality" explanation, whatever the errors, signals and
\* confidence are.
C2_UnreadableReview ==
    (Decided /\ ~Readable) =>
        /\ recommendation = "REVIEW"
        /\ explanation = <<"Document is not readable or too low quality">>

C2_Witness ==
    /\ Decided /\ ~Readable
    /\ validation_errors = <<>> /\ fraud_signals = <<>> /\ Confidence = 1000
    /\ recommendation = "REVIEW"

\* C3: when the document is readable and some fraud signal is HIGH, the result
\* is REVIEW and the explanation embeds the description of the first HIGH
\* signal in list order, whatever the errors and the confidence are.
C3_FirstHighSignal ==
    (Decided /\ Readable /\ HasHigh(fraud_signals)) =>
        /\ recommendation = "REVIEW"
        /\ explanation =
               <<"Potential fraud detected: ">> \o FirstHigh(fraud_signals).description

C3_Witness ==
    /\ Decided /\ Readable
    /\ Len(fraud_signals) = 2
    /\ fraud_signals[1].severity = "HIGH" /\ fraud_signals[2].severity = "HIGH"
    /\ fraud_signals[1].description # fraud_signals[2].description
    /\ Len(validation_errors) >= 3 /\ Confidence = 1000
    /\ explanation = <<"Potential fraud detected: ">> \o fraud_signals[1].description

\* C4 as stated: with exactly three validation errors the result is REVIEW and
\* the explanation mentions the count "3", for every value of the other inputs.
C4_Original ==
    (Decided /\ Len(validation_errors) = 3) =>
        /\ recommendation = "REVIEW"
        /\ Mentions(explanation, "3")

\* C4 amended: with exactly three validation errors the result is REVIEW for
\* every value of the other inputs; the explanation is the error-count one,
\* mentioning "3", when the document is readable and no fraud signal is HIGH
\* (the readability and fraud rules come first and give their own explanation).
C4_ThreeErrors ==
    (Decided /\ Len(validation_errors) = 3) =>
        /\ recommendation = "REVIEW"
        /\ (Readable /\ ~HasHigh(fraud_signals)) =>
               /\ explanation = <<"Multiple validation issues found (", "3", " errors)">>
               /\ Mentions(explanation, "3")

C4_Witness ==
    /\ Decided /\ Len(validation_errors) = 3
    /\ Readable /\ ~HasHigh(fraud_signals) /\ fraud_signals # <<>>
    /\ Confidence = 1000
    /\ Mentions(explanation, "3")

\* C5: readable, no HIGH signal, fewer than 3 errors: a confidence below 0.6
\* gives REVIEW with an explanation embedding the confidence (two decimals),
\* even with no errors and no signals at all.
C5_LowConfidence ==
    (/\ Decided /\ Readable /\ ~HasHigh(fraud_signals)
     /\ Len(validation_errors) < 3 /\ Confidence < 600) =>
        /\ recommendation = "REVIEW"
        /\ explanation =
               <<"Low extraction confidence (">> \o Fmt2(Confidence) \o <<")">>

C5_Witness ==
    /\ Decided /\ Readable
    /\ validation_errors = <<>> /\ fraud_signals = <<>>
    /\ Confidence = 599
    /\ recommendation = "REVIEW"
    /\ explanation = <<"Low extraction confidence (", "0", ".", "6", "0", ")">>

\* C6: when none of the first four rules fires, the result is APPROVE exactly
\* when there are no errors and no signals or the confidence is >= 0.8, and
\* REVIEW otherwise; with no errors, no signals and confidence >= 0.85 the
\* explanation is the "high confidence" one.
C6_ApproveRule ==
    (/\ Decided /\ Readable /\ ~HasHigh(fraud_signals)
     /\ Len(validation_errors) < 3 /\ Confidence >= 600) =>
        /\ recommendation = "APPROVE" <=>
               \/ validation_errors = <<>> /\ fraud_signals = <<>>
               \/ Confidence >= 800
        /\ recommendation # "APPROVE" => recommendation = "REVIEW"
        /\ (validation_errors = <<>> /\ fraud_signals = <<>> /\ Confidence >= 850)
               => explanation = <<"All checks passed with high confidence">>

C6_Witness ==
    /\ Decided /\ Readable /\ ~HasHigh(fraud_signals)
    /\ Len(validation_errors) = 1 /\ fraud_signals # <<>>
    /\ Confidence = 800
    /\ recommendation = "APPROVE"


(***************************************************************************)
(* Properties of run_verification_pipeline (checked under SpecPipeline).    *)
(***************************************************************************)
\* extract_fields has returned and lines 82-130 have run to a return or a raise
Extracted == pc \in {"returned", "raised"} /\ extraction_result # NoValue

RaisedIn(where) == exception # NoValue /\ exception.in = where

\* the raw `fields` map of the extraction result
RawFields == DictGet(extraction_result, "fields", JDict(<<>>))

\* a string that lowercases to the value of a DocumentType member
NamesKnownType(v) == v.t = "str" /\ DocumentType(Lower(v.s)).ok

\* the type the resolution rule gives: the hint if it lowercases to a known
\* type, otherwise the extracted type if known, otherwise unknown
SpecifiedType(hint, result) ==
    IF NamesKnownType(hint) THEN DocumentType(Lower(hint.s)).val
    ELSE IF NamesKnownType(DictGet(result, "document_type", JNull))
    THEN DocumentType(Lower(DictGet(result, "document_type", JNull).s)).val
    ELSE "unknown"

\* C7: document-type resolution never fails: for every hint and every
\* document_type of the extraction result, resolution raises nothing and
\* doc_type is the member of DocumentType the rule gives (a hint that
\* lowercases to a known type wins, otherwise the extracted type if known,
\* otherwise unknown).  The code violates this.
C7_TypeResolutionNeverFails ==
    Extracted =>
        /\ ~RaisedIn("resolve_doc_type")
        /\ doc_type \in DocumentTypes
        /\ doc_type = SpecifiedType(document_type_hint, extraction_result)

\* an entry of `fields` of the shape the extraction prompt asks for, or a
\* bare scalar in its place
RecordOrScalar(v) ==
    IF v.t = "dict"
    THEN /\ HasKey(v, "value")
         /\ DictGet(v, "value", JNull).t = "str"
         /\ IsNumber(DictGet(v, "confidence", JFloat(500)))
    ELSE v.t \in {"str", "int", "float", "bool", "null"}

\* C8: for every extraction result the collaborator returns (here: no hint,
\* a document_type that is absent or a string, and every entry of `fields` a
\* {value, confidence} record or a bare scalar), run_verification_pipeline
\* returns with a recommendation and raises nothing.  The code violates this.
C8_AlwaysAVerdict ==
    ( /\ Extracted
      /\ document_type_hint = JNull
      /\ DictGet(extraction_result, "document_type", JStr(<<>>)).t = "str"
      /\ \A i \in DOMAIN RawFields.items : RecordOrScalar(RawFields.items[i].v) )
    => /\ pc = "returned"
       /\ recommendation \in Recommendation

\* the normalizer (lines 95-105) has been reached
NormalizerRan == Extracted /\ ~RaisedIn("resolve_doc_type")

\* C9: field normalization never aborts the pipeline: whatever the raw
\* entries are, the normalizer raises nothing and produces an ExtractedField
\* for every entry, with confidence 0.5 where the entry is a record whose
\* confidence cannot be coerced.  The code violates this.
C9_NormalizerNeverAborts ==
    NormalizerRan =>
        /\ ~RaisedIn("normalize_fields")
        /\ Len(fields) = Len(RawFields.items)
        /\ \A i \in DOMAIN fields :
             /\ fields[i].k = RawFields.items[i].k
             /\ ( /\ RawFields.items[i].v.t = "dict"
                  /\ ~PyFloat(DictGet(RawFields.items[i].v, "confidence", JFloat(500))).ok )
                => fields[i].v.confidence = 500

\* C10: for every raw field map, the normalized map has exactly the field
\* names of the raw map, and every entry whose raw value is a bare scalar is
\* there with the scalar's string form as value and confidence 0.5.  The
\* code violates this (the normalizer raises, see C9, and leaves no map).
C10_ScalarsNormalized ==
    NormalizerRan =>
        /\ [i \in DOMAIN fields |-> fields[i].k]
             = [i \in DOMAIN RawFields.items |-> RawFields.items[i].k]
        /\ \A i \in DOMAIN RawFields.items :
             RawFields.items[i].v.t # "dict"
             => \E j \in DOMAIN fields :
                  /\ fields[j].k = RawFields.items[i].k
                  /\ fields[j].v = ExtractedField(PyStr(RawFields.items[i].v), 500)


\* the extraction call of the invocation has failed
ExtractionFailed == RaisedIn("extract_fields")

\* C11: if the extraction collaborator fails, the invocation has called it
\* exactly once (no retry), the failure has left run_verification_pipeline
\* to its caller, and there is no VerificationResult, partial or otherwise:
\* no recommendation, explanation, document type, fields, errors or signals.
C11_ExtractionFailureIsFatal ==
    /\ extract_calls <= 1
    /\ ExtractionFailed =>
         /\ pc = "raised"
         /\ extract_calls = 1
         /\ exception.exc \in ExtractionFailures
         /\ extraction_result = NoValue
         /\ <<doc_type, overall_confidence, is_readable, fields, validation_errors,
              fraud_signals, recommendation, explanation>>
              = <<Blank.doc_type, Blank.overall_confidence, Blank.is_readable,
                  Blank.fields, Blank.validation_errors, Blank.fraud_signals,
                  Blank.recommendation, Blank.explanation>>
         /\ ~ENABLED NextPipeline

\* a timed-out extraction call has ended the invocation
C11_Witness ==
    /\ ExtractionFailed
    /\ exception.exc = "TimeoutException"
    /\ pc = "raised"
    /\ extract_calls = 1


(***************************************************************************)
(* Properties of detect_fraud_signals (checked under SpecFraud).            *)
(***************************************************************************)
Detected == pc = "detected"

\* rank of a severity, for comparing positions in the list
SeverityRank(severity) ==
    CASE severity = "LOW" -> 1 [] severity = "MEDIUM" -> 2 [] severity = "HIGH" -> 3

\* C12: the list detect_fraud_signals returns is exactly the outputs of the
\* confidence check, the script-consistency check, the model-reported-issues
\* check and the forensic-analysis check, each computed on the same
\* extraction result, concatenated in this order; nothing is dropped,
\* altered or re-sorted.
C12_FixedOrderConcatenation ==
    Detected =>
        /\ check_low_confidence(extraction_result).ok
        /\ check_field_consistency(extraction_result).ok
        /\ check_issues_from_vlm(extraction_result).ok
        /\ check_llm_fraud_analysis(extraction_result).ok
        /\ fraud_signals = check_low_confidence(extraction_result).val
                           \o check_field_consistency(extraction_result).val
                           \o check_issues_from_vlm(extraction_result).val
                           \o check_llm_fraud_analysis(extraction_result).val

\* all four checks contribute, and the list is in neither severity order
C12_Witness ==
    /\ Detected
    /\ check_low_confidence(extraction_result).val # <<>>
    /\ check_field_consistency(extraction_result).val # <<>>
    /\ check_issues_from_vlm(extraction_result).val # <<>>
    /\ check_llm_fraud_analysis(extraction_result).val # <<>>
    /\ \E i, j \in DOMAIN fraud_signals :
         i < j /\ SeverityRank(fraud_signals[i].severity) < SeverityRank(fraud_signals[j].severity)
    /\ \E i, j \in DOMAIN fraud_signals :
         i < j /\ SeverityRank(fraud_signals[i].severity) > SeverityRank(fraud_signals[j].severity)

\* the types and severities of a list of signals, in order
Kinds(signals) == [i \in DOMAIN signals |-> <<signals[i].type, signals[i].severity>>]

\* issues = ["blurry scan"], fraud_analysis = {validity_score: 0.3,
\* is_genuine_appearance: false}, and nothing else but the key `extra`
BlurryScanResult(extra) ==
    JDict(extra
          \o <<Item("issues", JList(<<JStr(BlurryScan)>>)),
               Item("fraud_analysis",
                    JDict(<<Item("validity_score", JFloat(300)),
                            Item("is_genuine_appearance", JBool(FALSE))>>))>>)

ThreeSignals ==
    << <<"VLM_DETECTED_ISSUE", "LOW">>, <<"LOW_VALIDITY_SCORE", "HIGH">>,
       <<"VISUAL_ANOMALY", "HIGH">> >>

\* C13 as stated: for the extraction result that carries only the issues
\* and the fraud_analysis, exactly the three signals are returned, with no
\* confidence signal before them.
C13_Original ==
    (pc \in {"detected", "raised"} /\ extraction_result = BlurryScanResult(<<>>))
    => Detected /\ Kinds(fraud_signals) = ThreeSignals

\* C13, amended: when the result also carries an overall confidence of at
\* least 0.5, exactly the three signals VLM_DETECTED_ISSUE (LOW),
\* LOW_VALIDITY_SCORE (HIGH), VISUAL_ANOMALY (HIGH) are returned in that
\* order; when it carries only the issues and the fraud_analysis, the
\* missing confidence counts as 0 and a LOW_CONFIDENCE (MEDIUM) signal
\* precedes the three.
C13_BlurryScanSignals ==
    /\ (pc \in {"detected", "raised"}
        /\ extraction_result = BlurryScanResult(<<Item("confidence", JFloat(900))>>))
       => Detected /\ Kinds(fraud_signals) = ThreeSignals
    /\ (pc \in {"detected", "raised"} /\ extraction_result = BlurryScanResult(<<>>))
       => Detected /\ Kinds(fraud_signals) = << <<"LOW_CONFIDENCE", "MEDIUM">> >> \o ThreeSignals

C13_Witness ==
    /\ Detected
    /\ extraction_result = BlurryScanResult(<<>>)
    /\ Len(fraud_signals) = 4


(***************************************************************************)
(* Properties of validate_fields (checked under SpecValidate).              *)
(***************************************************************************)
Validated == pc = "validated"

\* the errors of the three groups of rules on the raw fields of the state
NameErrors == validate_name(RawFields)

DobErrors == validate_dob(RawFields, now)

TypeErrors ==
    CASE doc_type = "aadhaar"  -> validate_aadhaar(RawFields)
      [] doc_type = "pan"      -> validate_pan(RawFields)
      [] doc_type = "voter_id" -> validate_voter_id(RawFields)
      [] OTHER                 -> Ok(<<>>)

\* C14: validate_fields returns the name errors, then the date-of-birth
\* errors, then the type-specific errors; each group is there whatever the
\* others found, so errors accumulate and none hides another.
C14_ErrorsInOrder ==
    Validated =>
        /\ NameErrors.ok /\ DobErrors.ok /\ TypeErrors.ok
        /\ validation_errors = NameErrors.val \o DobErrors.val \o TypeErrors.val

\* name, date of birth and ID number all fail: four errors
C14_Witness ==
    /\ Validated
    /\ Len(NameErrors.val) = 2
    /\ DobErrors.val # <<>>
    /\ TypeErrors.val # <<>>
    /\ Len(validation_errors) = 4

\* the raw fields without the entry of a name
Without(raw, name) == JDict(SelectSeq(raw.items, LAMBDA item : item.k # name))

\* what the call of validate_fields of the state did
ValidateOutcome == IF Validated THEN Ok(validation_errors) ELSE Raise(exception.exc)

\* C15: for the document types other than aadhaar, pan and voter_id,
\* validate_fields returns only name and date-of-birth errors: its outcome
\* is that of the common checks alone and is the same without id_number.
C15_NoRuleForOtherTypes ==
    (pc \in {"validated", "raised"} /\ doc_type \notin {"aadhaar", "pan", "voter_id"})
    => /\ ValidateOutcome = Extend(NameErrors, DobErrors)
       /\ ValidateOutcome = validate_fields(doc_type, Without(RawFields, "id_number"), now)

\* a passport whose id_number fits no format gets no error for it
C15_Witness ==
    /\ Validated
    /\ doc_type = "passport"
    /\ HasKey(RawFields, "id_number")
    /\ validate_aadhaar(RawFields) # Ok(<<>>)
    /\ validate_pan(RawFields) # Ok(<<>>)
    /\ validation_errors = <<>>

\* the errors validate_fields returned after those of the common checks
IdErrors ==
    SubSeq(validation_errors, Len(NameErrors.val) + Len(DobErrors.val) + 1,
           Len(validation_errors))

\* the text of id_number ("" when there is no id_number)
IdText == FieldValue(RawFields, "id_number").val.s

\* the characters of a text that are not white space
NonSpace(text) == SelectSeq(text, LAMBDA c : c \notin {" ", "\t", "\n", "\r"})

IsTwelveDigits(text) ==
    Len(text) = 12 /\ \A i \in 1..12 : text[i] \in {"0", "1", "2", "3", "4", "5", "6", "7", "8", "9"}

\* C16: Aadhaar validation gives no ID error exactly when id_number, with
\* all white space removed, is exactly 12 digits, and exactly one error
\* mentioning "12 digits" otherwise (also when id_number is absent).
C16_AadhaarFormat ==
    (Validated /\ doc_type = "aadhaar") =>
        IF IsTwelveDigits(NonSpace(IdText))
        THEN IdErrors = <<>>
        ELSE Len(IdErrors) = 1 /\ Mentions(IdErrors[1], "12 digits")

\* "1234 5678 9012" passes
C16_Witness ==
    /\ Validated /\ doc_type = "aadhaar"
    /\ IdText = <<"1", "2", "3", "4", " ", "5", "6", "7", "8", " ", "9", "0", "1", "2">>
    /\ IdErrors = <<>>

\* 5 letters, 4 digits, 1 letter
IsPanFormat(text) ==
    /\ Len(text) = 10
    /\ \A i \in {1, 2, 3, 4, 5, 10} : IsUpper(text[i])
    /\ \A i \in 6..9 : IsDigit(text[i])

\* C17: PAN validation gives no ID error exactly when the uppercased,
\* trimmed id_number is 5 letters, 4 digits and 1 letter, and exactly one
\* format error otherwise.
C17_PanFormat ==
    (Validated /\ doc_type = "pan") =>
        IF IsPanFormat(Strip(Upper(IdText)))
        THEN IdErrors = <<>>
        ELSE IdErrors = << <<"PAN number must be in format ABCDE1234F">> >>

\* "abcde1234f" passes
C17_Witness ==
    /\ Validated /\ doc_type = "pan"
    /\ IdText = <<"a", "b", "c", "d", "e", "1", "2", "3", "4", "f">>
    /\ IdErrors = <<>>


(***************************************************************************)
(* Repeated calls (checked under SpecRepeat).                               *)
(***************************************************************************)
\* C18: two calls of determine_recommendation, of validate_fields or of
\* detect_fraud_signals with identical arguments have identical outcomes,
\* whenever they are made.  The code violates this for validate_fields.
C18_SameInputsSameOutputs ==
    \A i, j \in DOMAIN history :
        (history[i].fn = history[j].fn /\ history[i].args = history[j].args)
        => history[i].out = history[j].out


(***************************************************************************)
(* Concurrent invocations (checked under SpecConcurrent).                   *)
(***************************************************************************)
\* invocation i has ended the way it would have running alone: with the
\* result (or exception) of lines 82-130 on its own hint and its own
\* extraction result, or with the failure of its own extraction call
EndsAsAlone(i) ==
    IF invocations[i].extraction_result # NoValue
    THEN /\ invocations[i].locals
              = run_after_extract(invocations[i].document_type_hint,
                                  invocations[i].extraction_result, invocations[i].at)
         /\ invocations[i].pc = Finished(invocations[i].locals)
    ELSE /\ invocations[i].pc \in {"raised", "cancelled"}
         /\ invocations[i].locals.exception.in = "extract_fields"
         /\ invocations[i].locals = Raised(Blank, invocations[i].locals.exception.exc,
                                           "extract_fields")

\* C19: concurrent invocations are independent.  In every interleaving an
\* invocation that has ended holds the result or failure it would produce
\* alone; a suspended invocation can complete whatever the others have done
\* (failed, been cancelled, returned or not yet started); and a step of one
\* invocation, its failure and cancellation included, changes no other.
C19_Independent ==
    /\ [](\A i \in DOMAIN invocations :
            /\ invocations[i].pc \in {"returned", "raised", "cancelled"} => EndsAsAlone(i)
            /\ invocations[i].pc = "extracting" => ENABLED ConcurrentReturns(i))
    /\ [][\A i, j \in DOMAIN invocations :
            (i # j /\ invocations'[i] # invocations[i]) => invocations'[j] = invocations[j]]_vars

\* one invocation was cancelled and another, which got its extraction
\* result on a later date, returned a recommendation
C19_Witness ==
    \E i, j \in DOMAIN invocations :
        /\ invocations[i].pc = "cancelled"
        /\ invocations[j].pc = "returned"
        /\ invocations[j].locals.recommendation = "REVIEW"
        /\ invocations[j].at = now
        /\ \E earlier \in Clock : DateAfter(now, earlier)


(***************************************************************************)
(* The tool validate_id_number (checked under SpecMcp).                     *)
(***************************************************************************)
\* 3 letters, 7 digits
IsVoterFormat(text) ==
    /\ Len(text) = 10
    /\ \A i \in 1..3 : IsUpper(text[i])
    /\ \A i \in 4..10 : IsDigit(text[i])

\* the id_number meets the format the tool documents for the id_type
MatchesFormat(id_type, id_number) ==
    CASE id_type = DocumentTypeValue["aadhaar"]  -> IsTwelveDigits(NonSpace(id_number))
      [] id_type = DocumentTypeValue["pan"]      -> IsPanFormat(Strip(Upper(id_number)))
      [] id_type = DocumentTypeValue["voter_id"] -> IsVoterFormat(Strip(Upper(id_number)))

\* C20: for an id_type the tool supports and a string id_number, the tool
\* reports valid=true with an empty error list when id_number meets the
\* format of the id_type, and valid=false otherwise.  The code violates
\* this: it never reports valid=true.
C20_ValidIffFormatMatches ==
    ( /\ response # NoValue
      /\ DictGet(arguments, "id_type", JNull).t = "str"
      /\ \E m \in type_mapping :
           DocumentTypeValue[m] = Lower(DictGet(arguments, "id_type", JNull).s)
      /\ DictGet(arguments, "id_number", JNull).t = "str" )
    => IF MatchesFormat(Lower(DictGet(arguments, "id_type", JNull).s),
                        DictGet(arguments, "id_number", JNull).s)
       THEN response.valid /\ response.errors = <<>>
       ELSE ~response.valid

(***************************************************************************)
(* The four checks of services/fraud.py, one by one (under SpecFraud).      *)
(***************************************************************************)
\* the signals of the given types within the list returned
SignalsOfType(types) == SelectSeq(fraud_signals, LAMBDA s : s.type \in types)

\* the positions of the list returned that hold a signal of the given types
PositionsOfType(types) == { i \in DOMAIN fraud_signals : fraud_signals[i].type \in types }

\* the items of the raw `fields` mapping, in its iteration order
RawFieldItems ==
    IF HasKey(extraction_result, "fields")
    THEN DictGet(extraction_result, "fields", JDict(<<>>)).items ELSE <<>>

\* the overall confidence the extraction result reports, a missing one being 0
ReportedConfidence == NumValue(DictGet(extraction_result, "confidence", JInt(0)))

\* the field records whose confidence (a missing one being 0) is below 0.3
LowFieldItems ==
    SelectSeq(RawFieldItems,
              LAMBDA item : /\ item.v.t = "dict"
                            /\ NumValue(DictGet(item.v, "confidence", JInt(0))) < 300)

\* C21: the confidence check emits one MEDIUM LOW_CONFIDENCE signal exactly
\* when the overall confidence is below 0.5, followed by one LOW
\* LOW_FIELD_CONFIDENCE signal for every field whose confidence is below 0.3
\* and for no other field, in the iteration order of the fields mapping.  (A
\* confidence that is missing counts as 0.)
C21_ConfidenceSignals ==
    Detected =>
        LET n == IF ReportedConfidence < 500 THEN 1 ELSE 0
        IN  /\ PositionsOfType({"LOW_CONFIDENCE", "LOW_FIELD_CONFIDENCE"})
                 = 1..(n + Len(LowFieldItems))
            /\ PositionsOfType({"LOW_CONFIDENCE"}) = 1..n
            /\ \A i \in 1..n :
                 /\ fraud_signals[i].severity = "MEDIUM"
                 /\ fraud_signals[i].description
                      = <<"Overall extraction confidence is very low (">>
                        \o Fmt2(ReportedConfidence) \o <<")">>
            /\ \A i \in 1..Len(LowFieldItems) :
                 /\ fraud_signals[n + i].severity = "LOW"
                 /\ fraud_signals[n + i].description[2] = LowFieldItems[i].k

\* an overall confidence of exactly 0.5 gives no LOW_CONFIDENCE; of four
\* fields, the one at 0.29 and the record without confidence are named in
\* the order of the mapping, the one at 0.3 and the bare scalar are not
C21_Witness ==
    /\ Detected
    /\ ReportedConfidence = 500
    /\ Len(RawFieldItems) = 4
    /\ [i \in 1..2 |-> fraud_signals[i].description[2]] = <<"name", "id_number">>
    /\ PositionsOfType({"LOW_CONFIDENCE", "LOW_FIELD_CONFIDENCE"}) = {1, 2}

\* the strings of the raw `issues` list, in input order
IssueTexts ==
    IF HasKey(extraction_result, "issues")
    THEN SelectSeq(DictGet(extraction_result, "issues", JList(<<>>)).l,
                   LAMBDA issue : issue.t = "str")
    ELSE <<>>

\* the text holds the word, in any case
HasWord(text, word) == Contains(Lower(text), word)

HasTamperWord(text) ==
    HasWord(text, <<"t", "a", "m", "p", "e", "r">>) \/ HasWord(text, <<"e", "d", "i", "t">>)

HasQualityWord(text) ==
    \/ HasWord(text, <<"b", "l", "u", "r">>)
    \/ HasWord(text, <<"q", "u", "a", "l", "i", "t", "y">>)

\* C22: exactly one VLM_DETECTED_ISSUE signal per free-text string in
\* `issues`, in input order, carrying the text; its severity is HIGH when the
\* text contains "tamper" or "edit" in any case, otherwise LOW when it
\* contains "blur" or "quality", otherwise MEDIUM; a text with both kinds of
\* keyword is HIGH.
C22_IssueSignals ==
    Detected =>
        LET vlm == SignalsOfType({"VLM_DETECTED_ISSUE"})
        IN  /\ Len(vlm) = Len(IssueTexts)
            /\ \A i \in DOMAIN vlm :
                 /\ vlm[i].description = IssueTexts[i].s
                 /\ HasTamperWord(IssueTexts[i].s) => vlm[i].severity = "HIGH"
                 /\ (~HasTamperWord(IssueTexts[i].s) /\ HasQualityWord(IssueTexts[i].s))
                      => vlm[i].severity = "LOW"
                 /\ (~HasTamperWord(IssueTexts[i].s) /\ ~HasQualityWord(IssueTexts[i].s))
                      => vlm[i].severity = "MEDIUM"

\* an issue with "Blurry" and "TAMPERED" is HIGH and the next one, with
\* "Quality" alone, is LOW
C22_Witness ==
    /\ Detected
    /\ Len(IssueTexts) = 2
    /\ HasTamperWord(IssueTexts[1].s) /\ HasQualityWord(IssueTexts[1].s)
    /\ Kinds(SignalsOfType({"VLM_DETECTED_ISSUE"}))
         = << <<"VLM_DETECTED_ISSUE", "HIGH">>, <<"VLM_DETECTED_ISSUE", "LOW">> >>

ForensicTypes ==
    {"LOW_VALIDITY_SCORE", "VISUAL_ANOMALY", "SUSPICIOUS_ELEMENT", "ALTERATION_DETECTED"}

\* the raw fraud_analysis object, or the empty one when the result has none
ForensicData == DictGet(extraction_result, "fraud_analysis", JDict(<<>>))

\* the entries of a list of the fraud_analysis, none when the key is missing
ForensicEntries(key) ==
    IF HasKey(ForensicData, key) THEN DictGet(ForensicData, key, JList(<<>>)).l ELSE <<>>

\* the validity score reported, 1.0 when the key is missing
ReportedValidity ==
    IF HasKey(ForensicData, "validity_score")
    THEN NumValue(DictGet(ForensicData, "validity_score", JFloat(1000))) ELSE 1000

\* the extraction result with security_features_found taken out of its
\* fraud_analysis
WithoutSecurityFeatures ==
    JDict([i \in DOMAIN extraction_result.items |->
             IF extraction_result.items[i].k = "fraud_analysis"
             THEN Item("fraud_analysis",
                       Without(extraction_result.items[i].v, "security_features_found"))
             ELSE extraction_result.items[i]])

\* C23: the forensic signals are, in this order, one LOW_VALIDITY_SCORE when
\* validity_score (1.0 when missing) is below 0.6, HIGH below 0.4 and MEDIUM
\* from 0.4; one HIGH VISUAL_ANOMALY when is_genuine_appearance is false;
\* one MEDIUM SUSPICIOUS_ELEMENT per entry of suspicious_elements; one HIGH
\* ALTERATION_DETECTED per entry of alterations_detected.  Without a
\* fraud_analysis there is none, and security_features_found changes none.
C23_ForensicSignals ==
    Detected =>
        LET forensic == SignalsOfType(ForensicTypes)
            suspicious == ForensicEntries("suspicious_elements")
            alterations == ForensicEntries("alterations_detected")
            score == IF ReportedValidity < 600 THEN 1 ELSE 0
            anomaly == IF DictGet(ForensicData, "is_genuine_appearance", JBool(TRUE))
                            = JBool(FALSE)
                       THEN 1 ELSE 0
        IN  /\ Kinds(forensic)
                 = [i \in 1..score |->
                      <<"LOW_VALIDITY_SCORE",
                        IF ReportedValidity < 400 THEN "HIGH" ELSE "MEDIUM">>]
                   \o [i \in 1..anomaly |-> <<"VISUAL_ANOMALY", "HIGH">>]
                   \o [i \in DOMAIN suspicious |-> <<"SUSPICIOUS_ELEMENT", "MEDIUM">>]
                   \o [i \in DOMAIN alterations |-> <<"ALTERATION_DETECTED", "HIGH">>]
            /\ \A i \in DOMAIN suspicious :
                 forensic[score + anomaly + i].description
                   = <<"Suspicious: ">> \o suspicious[i].s
            /\ \A i \in DOMAIN alterations :
                 forensic[score + anomaly + Len(suspicious) + i].description
                   = <<"Tampering detected: ">> \o alterations[i].s
            /\ ~HasKey(extraction_result, "fraud_analysis") => forensic = <<>>
            /\ check_llm_fraud_analysis(WithoutSecurityFeatures) = Ok(forensic)

\* a fraud_analysis with a score of exactly 0.4, a failed visual check, two
\* suspicious elements, one alteration and a security feature gives the five
\* signals in the order of the checks
C23_Witness ==
    /\ Detected
    /\ ReportedValidity = 400
    /\ HasKey(ForensicData, "security_features_found")
    /\ Kinds(SignalsOfType(ForensicTypes))
         = << <<"LOW_VALIDITY_SCORE", "MEDIUM">>, <<"VISUAL_ANOMALY", "HIGH">>,
              <<"SUSPICIOUS_ELEMENT", "MEDIUM">>, <<"SUSPICIOUS_ELEMENT", "MEDIUM">>,
              <<"ALTERATION_DETECTED", "HIGH">> >>


(***************************************************************************)
(* validate_dob alone (checked under SpecValidate).                         *)
(***************************************************************************)
\* the text of dob ("" when there is no dob)
DobText == FieldValue(RawFields, "dob").val.s

\* the errors about the date of birth within the list returned
DobMessages ==
    SelectSeq(validation_errors,
              LAMBDA e : e[1] \in {"Could not parse date of birth: ",
                                   "Date of birth cannot be in the future",
                                   "Date of birth year seems too old"})

\* the formats of date_formats that parse the text
ParsingFormats(text) == { k \in DOMAIN date_formats : strptime(text, date_formats[k]).ok }

\* the date the first parsing format gives
FirstParsed(text) ==
    strptime(text, date_formats[CHOOSE k \in ParsingFormats(text) :
                                  \A j \in ParsingFormats(text) : k <= j]).val

\* C24: validate_dob returns at most one error.  None when dob is empty or
\* absent; otherwise 'could not parse' when no format parses it, else
\* 'cannot be in the future' when the date of the first format that parses
\* is strictly after now, else 'too old' when its year is before 1900, else
\* none.
C24_AtMostOneDobError ==
    Validated =>
        /\ Len(DobMessages) <= 1
        /\ DobMessages =
             IF DobText = <<>> THEN <<>>
             ELSE IF ParsingFormats(DobText) = {}
             THEN << <<"Could not parse date of birth: ">> \o DobText >>
             ELSE IF DateAfter(FirstParsed(DobText), now)
             THEN << <<"Date of birth cannot be in the future">> >>
             ELSE IF FirstParsed(DobText)[1] < 1900
             THEN << <<"Date of birth year seems too old">> >>
             ELSE <<>>

\* a date that only the third format parses and that lies after now gets
\* the one error about the future
C24_Witness ==
    /\ Validated
    /\ DobText = <<"2", "0", "2", "6", "-", "1", "1", "-", "0", "4">>
    /\ ParsingFormats(DobText) = {3}
    /\ DobMessages = << <<"Date of birth cannot be in the future">> >>


(***************************************************************************)
(* The confidence signals of a VerificationResult (under SpecPipeline).     *)
(***************************************************************************)
\* C25: in every VerificationResult a LOW_CONFIDENCE signal is present
\* exactly when confidence_score is below 0.5 and embeds that value, and a
\* LOW_FIELD_CONFIDENCE signal names field f exactly when
\* fields[f].confidence is below 0.3, also when the extraction result omits
\* `confidence` or a field record omits its `confidence`.  The code
\* violates this for the omitted keys.
C25_SignalsAgreeWithResult ==
    pc = "returned" =>
        /\ (\E i \in DOMAIN fraud_signals : fraud_signals[i].type = "LOW_CONFIDENCE")
             <=> NumValue(overall_confidence) < 500
        /\ \A i \in DOMAIN fraud_signals :
             fraud_signals[i].type = "LOW_CONFIDENCE"
             => fraud_signals[i].description
                  = <<"Overall extraction confidence is very low (">>
                    \o Fmt2(NumValue(overall_confidence)) \o <<")">>
        /\ \A f \in DOMAIN fields :
             (\E i \in DOMAIN fraud_signals :
                /\ fraud_signals[i].type = "LOW_FIELD_CONFIDENCE"
                /\ fraud_signals[i].description[2] = fields[f].k)
             <=> fields[f].v.confidence < 300


(***************************************************************************)
(* Monotonicity of determine_recommendation (checked under SpecEvidence).   *)
(***************************************************************************)
\* the call the current decision replaced recommended REVIEW
WasReview == history # <<>> /\ history[1].out.val[1] = "REVIEW"

\* C26: from any input for which determine_recommendation returns REVIEW,
\* adding a validation error, adding a fraud signal of any severity,
\* lowering the confidence or making the document unreadable never gives
\* APPROVE.
C26_ReviewStaysReview ==
    WasReview => recommendation # "APPROVE"

\* a REVIEW for some issues at a confidence below 0.8 that, with a third
\* error, stays REVIEW, now for its many errors
C26_Witness ==
    /\ WasReview
    /\ history[1].out.val[2] = <<"Some issues require manual verification">>
    /\ Len(validation_errors) = Len(history[1].args[1]) + 1
    /\ recommendation = "REVIEW"
    /\ Mentions(explanation, "Multiple validation issues found (")


(***************************************************************************)
(* The endpoints of verify.py (checked under SpecProcess and              *)
(* SpecEndpoints).                                                         *)
(***************************************************************************)
\* the upload has a row, and its status
HasRow == verification_requests # <<>>

RowStatus == verification_requests[1].status

Answered(code) == response # NoValue /\ response.status_code = code

\* C27: for every accepted upload a row with status PROCESSING exists
\* before the pipeline starts, and the row eventually leaves PROCESSING for
\* one final status: COMPLETED exactly when the caller receives the
\* VerificationResult, FAILED exactly when the caller receives HTTP 500; a
\* row that is COMPLETED or FAILED is never changed again; an upload of a
\* content type that is not allowed gets HTTP 400 with no row and no
\* pipeline call.  The code violates the "eventually": a request cancelled
\* while the pipeline is awaited leaves its row in PROCESSING.
C27_RecordLifecycle ==
    /\ [](pc = "awaiting" => HasRow /\ RowStatus = "PROCESSING")
    /\ [](HasRow => /\ RowStatus = "COMPLETED" <=> Answered(200)
                    /\ RowStatus = "FAILED" <=> Answered(500))
    /\ [][(HasRow /\ RowStatus \in {"COMPLETED", "FAILED"})
            => verification_requests' = verification_requests]_vars
    /\ [](arguments.content_type \notin allowed_types
            => /\ ~HasRow
               /\ pc \in {"received", "responded"}
               /\ pc = "responded" => Answered(400))
    /\ (HasRow ~> (HasRow /\ RowStatus \in {"COMPLETED", "FAILED"}))

\* the recommendation stored for a row; REVIEW when none is stored
StoredRecommendation(row) ==
    IF row.raw_response.t = "dict" /\ HasKey(row.raw_response, "recommendation")
    THEN DictGet(row.raw_response, "recommendation", JNull).s[1]
    ELSE "REVIEW"

\* C28: each call of submit_decision that names an existing request appends
\* exactly one entry to audit_logs, and a call that names none appends
\* nothing (and is answered with HTTP 404 when the lookup returns no data);
\* the entry's was_overridden is true exactly when the decision differs from
\* the stored recommendation, REVIEW being assumed when none is stored, as
\* for a PROCESSING or FAILED request; its override_reason is non-null only
\* when was_overridden is true.  The code violates this for a request whose
\* raw_response is NULL.
C28_OneAuditEntryPerDecision ==
    [][history' # history =>
         LET call == history'[Len(history')]
             data == SelectSeq(verification_requests,
                               LAMBDA row : row.id = call.args.request_id)
         IN  IF data = <<>>
             THEN /\ audit_logs' = audit_logs
                  /\ call.out.status_code \in {404, 500}
                  /\ call.out.status_code = 500 => call.out.exc = "APIError"
             ELSE /\ Len(audit_logs') = Len(audit_logs) + 1
                  /\ SubSeq(audit_logs', 1, Len(audit_logs)) = audit_logs
                  /\ LET entry == audit_logs'[Len(audit_logs')]
                     IN  /\ entry.request_id = call.args.request_id
                         /\ entry.was_overridden
                              <=> call.args.final_decision # StoredRecommendation(data[1])
                         /\ entry.override_reason # JNull => entry.was_overridden]_vars

====
